---- MODULE Spec2Model ----
(***************************************************************************)
(* A model of the QR Code generator: the segment encoder (QrSegment,       *)
(* QrMode, QrCodeUtil), the version/ECC selector and symbol constructor    *)
(* (QrCode) and the MyQrCode facade.                                       *)
(*                                                                         *)
(* JavaScript arrays are sequences, so the source's index i is i + 1 here. *)
(* A string is the sequence of its character codes.  A thrown error is a   *)
(* value with a non-empty err field.  A loop is a RECURSIVE operator over  *)
(* the record of its local variables; a value that is used more than once  *)
(* is passed on as an operator argument, so it is computed once.           *)
(***************************************************************************)
EXTENDS Integers, Sequences, FiniteSets, TLC

\* ------------------------------------------------------------------------
\* QrEcc
\* ------------------------------------------------------------------------
LOW == [ordinal |-> 0, formatBits |-> 1]
MEDIUM == [ordinal |-> 1, formatBits |-> 0]
QUARTILE == [ordinal |-> 2, formatBits |-> 3]
HIGH == [ordinal |-> 3, formatBits |-> 2]

QrEcc == {LOW, MEDIUM, QUARTILE, HIGH}

\* ------------------------------------------------------------------------
\* QrMode
\* ------------------------------------------------------------------------
NUMERIC == [modeBits |-> 1, numBitsCharCount |-> <<10, 12, 14>>]
ALPHANUMERIC == [modeBits |-> 2, numBitsCharCount |-> <<9, 11, 13>>]
BYTE == [modeBits |-> 4, numBitsCharCount |-> <<8, 16, 16>>]
KANJI == [modeBits |-> 8, numBitsCharCount |-> <<8, 10, 12>>]
ECI == [modeBits |-> 7, numBitsCharCount |-> <<0, 0, 0>>]

numCharCountBits(mode, ver) == mode.numBitsCharCount[((ver + 7) \div 17) + 1]

\* ------------------------------------------------------------------------
\* QrCodeUtil
\* ------------------------------------------------------------------------
NoErr == ""

\* x >>> i for a non-negative x
Shr(x, i) == x \div (2 ^ i)

\* getBit as a number: (x >>> i) & 1
BitAt(x, i) == Shr(x, i) % 2

getBit(x, i) == BitAt(x, i) # 0

\* A sequence given by a function constructor, evaluated once into an array.
Arr(f) == f \o <<>>

\* the loop of appendBits: len bits of val, most significant first
BitsOf(val, len) == Arr([k \in 1..len |-> BitAt(val, len - k)])

\* appendBits for 0 <= val < 2^31, where val >>> i is val \div 2^i
appendBits(val, len, bb) ==
    IF len < 0 \/ len > 31 \/ Shr(val, len) # 0
    THEN [err |-> "RangeError: Value out of range", bb |-> bb]
    ELSE [err |-> NoErr, bb |-> bb \o BitsOf(val, len)]

\* A number val = hi * 2^16 + lo (0 <= lo < 2^16, 0 <= hi) as >>> sees it:
\* ToUint32(val) keeps the low 32 bits, hi % 2^16 and lo.
\* (val >>> i) & 1 for 0 <= i <= 31
WideBitAt(hi, lo, i) ==
    IF i >= 16 THEN ((hi % 65536) \div (2 ^ (i - 16))) % 2 ELSE (lo \div (2 ^ i)) % 2

\* val >>> len != 0 for 0 <= len <= 31
WideShrNonZero(hi, lo, len) ==
    IF len >= 16 THEN (hi % 65536) \div (2 ^ (len - 16)) # 0
    ELSE (hi % 65536) # 0 \/ lo \div (2 ^ len) # 0

\* appendBits for any non-negative integer val = hi * 2^16 + lo
appendBitsWide(hi, lo, len, bb) ==
    IF len < 0 \/ len > 31 \/ WideShrNonZero(hi, lo, len)
    THEN [err |-> "RangeError: Value out of range", bb |-> bb]
    ELSE [err |-> NoErr,
          bb |-> bb \o Arr([k \in 1..len |-> WideBitAt(hi, lo, len - k)])]

\* bitwise XOR (the ^ operator) of two non-negative integers, bit by bit
RECURSIVE XorBits(_, _)
XorBits(a, b) ==
    IF a = 0 THEN b
    ELSE IF b = 0 THEN a
    ELSE ((a + b) % 2) + 2 * XorBits(a \div 2, b \div 2)

\* the same, tabulated for 4-bit operands
XOR_NIBBLE == [a \in 0..15 |-> [b \in 0..15 |-> XorBits(a, b)]]

\* bitwise XOR (the ^ operator) of two non-negative integers, four bits at a time
RECURSIVE Xor(_, _)
Xor(a, b) ==
    IF a < 16 /\ b < 16 THEN XOR_NIBBLE[a][b]
    ELSE XOR_NIBBLE[a % 16][b % 16] + 16 * Xor(a \div 16, b \div 16)

\* ------------------------------------------------------------------------
\* QrCode: constants and capacity tables
\* ------------------------------------------------------------------------
MIN_VERSION == 1
MAX_VERSION == 40

PENALTY_N1 == 3
PENALTY_N2 == 3
PENALTY_N3 == 40
PENALTY_N4 == 10

\* Index 1 of each row is version 0 (the illegal padding entry).
ECC_CODEWORDS_PER_BLOCK ==
    << <<-1, 7, 10, 15, 20, 26, 18, 20, 24, 30, 18, 20, 24, 26, 30, 22, 24, 28, 30, 28, 28,
         28, 28, 30, 30, 26, 28, 30, 30, 30, 30, 30, 30, 30, 30, 30, 30, 30, 30, 30, 30>>,
       <<-1, 10, 16, 26, 18, 24, 16, 18, 22, 22, 26, 30, 22, 22, 24, 24, 28, 28, 26, 26, 26,
         26, 28, 28, 28, 28, 28, 28, 28, 28, 28, 28, 28, 28, 28, 28, 28, 28, 28, 28, 28>>,
       <<-1, 13, 22, 18, 26, 18, 24, 18, 22, 20, 24, 28, 26, 24, 20, 30, 24, 28, 28, 26, 30,
         28, 30, 30, 30, 30, 28, 30, 30, 30, 30, 30, 30, 30, 30, 30, 30, 30, 30, 30, 30>>,
       <<-1, 17, 28, 22, 16, 22, 28, 26, 26, 24, 28, 24, 28, 22, 24, 24, 30, 28, 28, 26, 28,
         30, 24, 30, 30, 30, 30, 30, 30, 30, 30, 30, 30, 30, 30, 30, 30, 30, 30, 30, 30>> >>

NUM_ERROR_CORRECTION_BLOCKS ==
    << <<-1, 1, 1, 1, 1, 1, 2, 2, 2, 2, 4, 4, 4, 4, 4, 6, 6, 6, 6, 7, 8,
         8, 9, 9, 10, 12, 12, 12, 13, 14, 15, 16, 17, 18, 19, 19, 20, 21, 22, 24, 25>>,
       <<-1, 1, 1, 1, 2, 2, 4, 4, 4, 5, 5, 5, 8, 9, 9, 10, 10, 11, 13, 14, 16,
         17, 17, 18, 20, 21, 23, 25, 26, 28, 29, 31, 33, 35, 37, 38, 40, 43, 45, 47, 49>>,
       <<-1, 1, 1, 2, 2, 4, 4, 6, 6, 8, 8, 8, 10, 12, 16, 12, 17, 16, 18, 21, 20,
         23, 23, 25, 27, 29, 34, 34, 35, 38, 40, 43, 45, 48, 51, 53, 56, 59, 62, 65, 68>>,
       <<-1, 1, 1, 2, 4, 4, 4, 5, 6, 8, 8, 11, 11, 16, 16, 18, 16, 19, 21, 25, 25,
         25, 34, 30, 32, 35, 37, 40, 42, 45, 48, 51, 54, 57, 60, 63, 66, 70, 74, 77, 81>> >>

\* A faulty variant of getNumRawDataModules: the 36 version-information modules
\* of versions 7 and up are counted as data modules.
getNumRawDataModulesWithVersionInfo(ver) ==
    LET r0 == (16 * ver + 128) * ver + 64
        numAlign == (ver \div 7) + 2
    IN IF ver >= 2 THEN r0 - ((25 * numAlign - 10) * numAlign - 55) ELSE r0

\* A faulty variant of getNumRawDataModules: the alignment patterns and the
\* version information are not subtracted.
getNumRawDataModulesNoAlignment(ver) == (16 * ver + 128) * ver + 64

\* Defined for MIN_VERSION <= ver <= MAX_VERSION (the source throws otherwise).
getNumRawDataModules(ver) ==
    LET r0 == (16 * ver + 128) * ver + 64
        numAlign == (ver \div 7) + 2
        r1 == IF ver >= 2 THEN r0 - ((25 * numAlign - 10) * numAlign - 55) ELSE r0
    IN IF ver >= 7 THEN r1 - 36 ELSE r1

\* getNumRawDataModules as a call: the range check on ver and the assertion on
\* the result
getNumRawDataModulesCall(ver) ==
    IF ver < 1 \/ ver > 40
    THEN [err |-> "RangeError: Version number out of range"]
    ELSE IF ~(208 <= getNumRawDataModules(ver) /\ getNumRawDataModules(ver) <= 29648)
    THEN [err |-> "Error: Assertion error"]
    ELSE [err |-> NoErr, result |-> getNumRawDataModules(ver)]

getNumDataCodewords(ver, ecl) ==
    (getNumRawDataModules(ver) \div 8)
    - ECC_CODEWORDS_PER_BLOCK[ecl.ordinal + 1][ver + 1]
      * NUM_ERROR_CORRECTION_BLOCKS[ecl.ordinal + 1][ver + 1]

\* ------------------------------------------------------------------------
\* QrSegment
\* ------------------------------------------------------------------------
\* "0123456789ABCDEFGHIJKLMNOPQRSTUVWXYZ $%*+-./:" as character codes
ALPHANUMERIC_CHARSET ==
    <<48, 49, 50, 51, 52, 53, 54, 55, 56, 57,
      65, 66, 67, 68, 69, 70, 71, 72, 73, 74, 75, 76, 77, 78, 79, 80, 81, 82, 83, 84,
      85, 86, 87, 88, 89, 90,
      32, 36, 37, 42, 43, 45, 46, 47, 58>>

\* String.indexOf on the charset: the 0-based index, or -1
indexOf(charset, c) ==
    IF \E i \in 1..Len(charset) : charset[i] = c
    THEN (CHOOSE i \in 1..Len(charset) : charset[i] = c) - 1
    ELSE -1

\* NUMERIC_REGEX /^[0-9]*$/
isNumeric(text) == \A i \in 1..Len(text) : text[i] \in 48..57

\* ALPHANUMERIC_REGEX /^[A-Z0-9 $%*+.\/:-]*$/
isAlphanumeric(text) ==
    \A i \in 1..Len(text) :
        text[i] \in (65..90) \cup (48..57) \cup {32, 36, 37, 42, 43, 46, 47, 58, 45}

\* new QrSegment(mode, numChars, bitData): the bit buffer is copied by value
QrSegment(mode, numChars, bitData) ==
    IF numChars < 0
    THEN [err |-> "RangeError: Invalid argument"]
    ELSE [err |-> NoErr, mode |-> mode, numChars |-> numChars, bitData |-> bitData]

getData(seg) == seg.bitData

makeBytes(data) ==
    IF \E i \in 1..Len(data) : Shr(data[i], 8) # 0
    THEN [err |-> "RangeError: Value out of range"]
    ELSE QrSegment(BYTE, Len(data),
            Arr([k \in 1..(8 * Len(data)) |->
                    BitAt(data[((k - 1) \div 8) + 1], 7 - ((k - 1) % 8))]))

\* parseInt(digits.substring(i, i + n), 10), i 0-based
RECURSIVE parseInt(_, _, _)
parseInt(digits, i, n) ==
    IF n = 0 THEN 0
    ELSE 10 * parseInt(digits, i, n - 1) + (digits[i + n] - 48)

Min(a, b) == IF a <= b THEN a ELSE b
Max(a, b) == IF a >= b THEN a ELSE b

RECURSIVE NumericBits(_, _)
NumericBits(digits, i) ==
    IF i >= Len(digits) THEN <<>>
    ELSE LET n == Min(Len(digits) - i, 3)
         IN appendBits(parseInt(digits, i, n), n * 3 + 1, <<>>).bb
            \o NumericBits(digits, i + n)

makeNumeric(digits) ==
    IF ~isNumeric(digits)
    THEN [err |-> "RangeError: String contains non-numeric characters"]
    ELSE QrSegment(NUMERIC, Len(digits), NumericBits(digits, 0))

RECURSIVE AlphanumericBits(_, _)
AlphanumericBits(text, i) ==
    IF i + 2 <= Len(text)
    THEN LET temp == indexOf(ALPHANUMERIC_CHARSET, text[i + 1]) * 45
                     + indexOf(ALPHANUMERIC_CHARSET, text[i + 2])
         IN appendBits(temp, 11, <<>>).bb \o AlphanumericBits(text, i + 2)
    ELSE IF i < Len(text)
    THEN appendBits(indexOf(ALPHANUMERIC_CHARSET, text[i + 1]), 6, <<>>).bb
    ELSE <<>>

\* A faulty variant of makeAlphanumeric: the last character of a text of odd
\* length is not encoded.
makeAlphanumericPairsOnly(text) ==
    IF ~isAlphanumeric(text)
    THEN [err |-> "RangeError: String contains unencodable characters in alphanumeric mode"]
    ELSE QrSegment(ALPHANUMERIC, Len(text),
                   AlphanumericBits(SubSeq(text, 1, 2 * (Len(text) \div 2)), 0))

makeAlphanumeric(text) ==
    IF ~isAlphanumeric(text)
    THEN [err |-> "RangeError: String contains unencodable characters in alphanumeric mode"]
    ELSE QrSegment(ALPHANUMERIC, Len(text), AlphanumericBits(text, 0))

\* encodeURI followed by the %HH scan: the UTF-8 bytes of the UTF-16 string,
\* or URIError on a lone surrogate.
IsHighSurrogate(c) == c \in 55296..56319
IsLowSurrogate(c) == c \in 56320..57343

Utf8OfCodePoint(c) ==
    IF c < 128 THEN <<c>>
    ELSE IF c < 2048 THEN <<192 + (c \div 64), 128 + (c % 64)>>
    ELSE IF c < 65536
    THEN <<224 + (c \div 4096), 128 + ((c \div 64) % 64), 128 + (c % 64)>>
    ELSE <<240 + (c \div 262144), 128 + ((c \div 4096) % 64),
           128 + ((c \div 64) % 64), 128 + (c % 64)>>

Utf8Prepend(bytes, rest) ==
    IF rest.err # NoErr THEN rest
    ELSE [err |-> NoErr, bytes |-> bytes \o rest.bytes]

RECURSIVE toUtf8ByteArray(_)
toUtf8ByteArray(str) ==
    IF str = <<>> THEN [err |-> NoErr, bytes |-> <<>>]
    ELSE IF IsHighSurrogate(str[1]) /\ Len(str) >= 2 /\ IsLowSurrogate(str[2])
    THEN Utf8Prepend(
            Utf8OfCodePoint(65536 + (str[1] - 55296) * 1024 + (str[2] - 56320)),
            toUtf8ByteArray(SubSeq(str, 3, Len(str))))
    ELSE IF IsHighSurrogate(str[1]) \/ IsLowSurrogate(str[1])
    THEN [err |-> "URIError: URI malformed", bytes |-> <<>>]
    ELSE Utf8Prepend(Utf8OfCodePoint(str[1]), toUtf8ByteArray(Tail(str)))

\* [QrSegment.makeBytes(QrSegment.toUtf8ByteArray(text))]
BytesOfUtf8(u) ==
    IF u.err # NoErr THEN [err |-> u.err, segs |-> <<>>]
    ELSE [err |-> NoErr, segs |-> <<makeBytes(u.bytes)>>]

\* [new QrSegment(QrMode.ECI, 0, bb)] once the appends have succeeded
EciSegment(r) ==
    IF r.err # NoErr THEN [err |-> r.err] ELSE QrSegment(ECI, 0, r.bb)

\* makeEci with the one-byte form taken for every value below 1 << 8
makeEciByteWide(assignVal) ==
    IF assignVal < 0
    THEN [err |-> "RangeError: ECI assignment value out of range"]
    ELSE IF assignVal < 2 ^ 8
    THEN EciSegment(appendBits(assignVal, 8, <<>>))
    ELSE IF assignVal < 2 ^ 14
    THEN EciSegment(appendBits(assignVal, 14, appendBits(2, 2, <<>>).bb))
    ELSE IF assignVal < 1000000
    THEN EciSegment(appendBits(assignVal, 21, appendBits(6, 3, <<>>).bb))
    ELSE [err |-> "RangeError: ECI assignment value out of range"]

makeEci(assignVal) ==
    IF assignVal < 0
    THEN [err |-> "RangeError: ECI assignment value out of range"]
    ELSE IF assignVal < 2 ^ 7
    THEN EciSegment(appendBits(assignVal, 8, <<>>))
    ELSE IF assignVal < 2 ^ 14
    THEN EciSegment(appendBits(assignVal, 14, appendBits(2, 2, <<>>).bb))
    ELSE IF assignVal < 1000000
    THEN EciSegment(appendBits(assignVal, 21, appendBits(6, 3, <<>>).bb))
    ELSE [err |-> "RangeError: ECI assignment value out of range"]

makeSegments(text) ==
    IF text = <<>> THEN [err |-> NoErr, segs |-> <<>>]
    ELSE IF isNumeric(text) THEN [err |-> NoErr, segs |-> <<makeNumeric(text)>>]
    ELSE IF isAlphanumeric(text) THEN [err |-> NoErr, segs |-> <<makeAlphanumeric(text)>>]
    ELSE BytesOfUtf8(toUtf8ByteArray(text))

\* The value returned by getTotalBits for a segment whose count does not fit.
Infinity == 1000000000

\* A faulty variant of TotalBitsFrom: a count of exactly 1 << ccbits is let through.
RECURSIVE TotalBitsFromStrict(_, _, _, _)
TotalBitsFromStrict(segs, version, k, result) ==
    IF k > Len(segs) THEN result
    ELSE LET seg == segs[k]
             ccbits == numCharCountBits(seg.mode, version)
         IN IF seg.numChars > 2 ^ ccbits
            THEN Infinity
            ELSE TotalBitsFromStrict(segs, version, k + 1,
                                     result + 4 + ccbits + Len(seg.bitData))

RECURSIVE TotalBitsFrom(_, _, _, _)
TotalBitsFrom(segs, version, k, result) ==
    IF k > Len(segs) THEN result
    ELSE LET seg == segs[k]
             ccbits == numCharCountBits(seg.mode, version)
         IN IF seg.numChars >= 2 ^ ccbits
            THEN Infinity
            ELSE TotalBitsFrom(segs, version, k + 1, result + 4 + ccbits + Len(seg.bitData))

getTotalBits(segs, version) == TotalBitsFrom(segs, version, 1, 0)

\* ------------------------------------------------------------------------
\* QrCode: Reed-Solomon over GF(2^8 / 0x11D)
\* ------------------------------------------------------------------------
AssertionError == "Error: Assertion error"

\* the loop body for i = 7 down to 0; x and y are unsigned 8-bit
RECURSIVE MultiplyLoop(_, _, _, _)
MultiplyLoop(x, y, i, z) ==
    IF i < 0 THEN z
    ELSE LET z1 == Xor(z * 2, Shr(z, 7) * 285)
             z2 == Xor(z1, BitAt(y, i) * x)
         IN MultiplyLoop(x, y, i - 1, z2)

reedSolomonMultiply(x, y) == MultiplyLoop(x, y, 7, 0)

\* one pass of the inner loop over j: result[j] = result[j] * root ^ result[j + 1]
DivisorPass(result, root) ==
    Arr([j \in 1..Len(result) |->
            Xor(reedSolomonMultiply(result[j], root),
                IF j + 1 <= Len(result) THEN result[j + 1] ELSE 0)])

\* Loop state st = [i, root, result]: the locals of the outer loop.
RECURSIVE DivisorLoop(_, _)
DivisorLoop(st, degree) ==
    IF st.i >= degree THEN st.result
    ELSE DivisorLoop([i |-> st.i + 1,
                      root |-> reedSolomonMultiply(st.root, 2),
                      result |-> DivisorPass(st.result, st.root)], degree)

\* Defined for 1 <= degree <= 255 (the source throws otherwise).
reedSolomonComputeDivisor(degree) ==
    DivisorLoop([i |-> 0, root |-> 1,
                 result |-> Arr([j \in 1..degree |-> IF j = degree THEN 1 ELSE 0])], degree)

\* result[i] ^= multiply(divisor[i], factor) without result.shift()
RemainderStepNoShift(result, divisor, factor) ==
    Arr([i \in 1..Len(divisor) |->
            Xor(result[i], reedSolomonMultiply(divisor[i], factor))])

\* result.shift(); result.push(0); result[i] ^= multiply(divisor[i], factor)
RemainderStep(result, divisor, factor) ==
    Arr([i \in 1..Len(divisor) |->
            Xor(IF i < Len(result) THEN result[i + 1] ELSE 0,
                reedSolomonMultiply(divisor[i], factor))])

\* Loop state st = [k, result]: k is the 1-based index of the next data byte.
RECURSIVE RemainderLoop(_, _, _)
RemainderLoop(data, divisor, st) ==
    IF st.k > Len(data) THEN st.result
    ELSE RemainderLoop(data, divisor,
            [k |-> st.k + 1,
             result |-> RemainderStep(st.result, divisor, Xor(data[st.k], st.result[1]))])

reedSolomonComputeRemainder(data, divisor) ==
    RemainderLoop(data, divisor, [k |-> 1, result |-> Arr([i \in 1..Len(divisor) |-> 0])])

\* ------------------------------------------------------------------------
\* QrCode: codewords
\* ------------------------------------------------------------------------
\* Array.prototype.slice(from, to) with 0 <= from
Slice(arr, from, to) ==
    LET e == Min(to, Len(arr))
    IN IF from >= e THEN <<>> ELSE SubSeq(arr, from + 1, e)

\* block i: its data bytes dat and their ECC, followed by the later blocks
RECURSIVE MakeBlocks(_, _, _, _, _, _, _, _)
\* A faulty variant of MakeBlock: k advances by the short length after every block.
MakeBlockShortStep(data, rsDiv, numBlocks, numShortBlocks, shortBlockLen, blockEccLen, i, k, dat) ==
    <<(IF i < numShortBlocks THEN Append(dat, 0) ELSE dat)
      \o reedSolomonComputeRemainder(dat, rsDiv)>>
    \o MakeBlocks(data, rsDiv, numBlocks, numShortBlocks, shortBlockLen, blockEccLen,
                  i + 1, k + shortBlockLen - blockEccLen)

MakeBlock(data, rsDiv, numBlocks, numShortBlocks, shortBlockLen, blockEccLen, i, k, dat) ==
    <<(IF i < numShortBlocks THEN Append(dat, 0) ELSE dat)
      \o reedSolomonComputeRemainder(dat, rsDiv)>>
    \o MakeBlocks(data, rsDiv, numBlocks, numShortBlocks, shortBlockLen, blockEccLen,
                  i + 1, k + Len(dat))

\* The blocks of addEccAndInterleave: block i (0-based) starting at data offset k.
MakeBlocks(data, rsDiv, numBlocks, numShortBlocks, shortBlockLen, blockEccLen, i, k) ==
    IF i >= numBlocks THEN <<>>
    ELSE MakeBlock(data, rsDiv, numBlocks, numShortBlocks, shortBlockLen, blockEccLen, i, k,
            Slice(data, k,
                  k + shortBlockLen - blockEccLen + (IF i < numShortBlocks THEN 0 ELSE 1)))

\* the inner loop of the interleaving: byte i of every block j, skipping the
\* padding byte of the short blocks
RECURSIVE InterleaveColumn(_, _, _, _, _, _)
InterleaveColumn(blocks, numShortBlocks, shortBlockLen, blockEccLen, i, j) ==
    IF j >= Len(blocks) THEN <<>>
    ELSE (IF i # shortBlockLen - blockEccLen \/ j >= numShortBlocks
          THEN <<blocks[j + 1][i + 1]>> ELSE <<>>)
         \o InterleaveColumn(blocks, numShortBlocks, shortBlockLen, blockEccLen, i, j + 1)

\* the outer loop, st = [i, result]
RECURSIVE Interleave(_, _, _, _, _)
Interleave(blocks, numShortBlocks, shortBlockLen, blockEccLen, st) ==
    IF st.i >= Len(blocks[1]) THEN st.result
    ELSE Interleave(blocks, numShortBlocks, shortBlockLen, blockEccLen,
            [i |-> st.i + 1,
             result |-> st.result \o InterleaveColumn(blocks, numShortBlocks,
                                        shortBlockLen, blockEccLen, st.i, 0)])

\* QrCodeUtil.assert(result.length == rawCodewords)
InterleaveChecked(result, rawCodewords) ==
    IF Len(result) # rawCodewords
    THEN [err |-> AssertionError, result |-> result]
    ELSE [err |-> NoErr, result |-> result]

addEccAndInterleave(data, ver, ecl) ==
    IF Len(data) # getNumDataCodewords(ver, ecl)
    THEN [err |-> "RangeError: Invalid argument", result |-> <<>>]
    ELSE LET numBlocks == NUM_ERROR_CORRECTION_BLOCKS[ecl.ordinal + 1][ver + 1]
             blockEccLen == ECC_CODEWORDS_PER_BLOCK[ecl.ordinal + 1][ver + 1]
             rawCodewords == getNumRawDataModules(ver) \div 8
             numShortBlocks == numBlocks - (rawCodewords % numBlocks)
             shortBlockLen == rawCodewords \div numBlocks
         IN InterleaveChecked(
                Interleave(MakeBlocks(data, reedSolomonComputeDivisor(blockEccLen),
                                      numBlocks, numShortBlocks, shortBlockLen,
                                      blockEccLen, 0, 0),
                           numShortBlocks, shortBlockLen, blockEccLen,
                           [i |-> 0, result |-> <<>>]),
                rawCodewords)

\* ------------------------------------------------------------------------
\* QrCode: drawing function modules.  q is the object under construction:
\* [err, version, errorCorrectionLevel, size, mask, modules, isFunction];
\* modules[y + 1][x + 1] is the source's modules[y][x].
\* ------------------------------------------------------------------------
setFunctionModule(q, x, y, isDark) ==
    [q EXCEPT !.modules[y + 1][x + 1] = isDark, !.isFunction[y + 1][x + 1] = TRUE]

Abs(n) == IF n < 0 THEN -n ELSE n

\* the loops over dy, dx in -4..4, flattened: k = 9 * (dy + 4) + (dx + 4)
RECURSIVE FinderLoop(_, _, _, _)
FinderLoop(q, x, y, k) ==
    IF k >= 81 \/ q.err # NoErr THEN q
    ELSE LET dy == (k \div 9) - 4
             dx == (k % 9) - 4
             dist == Max(Abs(dx), Abs(dy))
             xx == x + dx
             yy == y + dy
         IN FinderLoop(IF 0 <= xx /\ xx < q.size /\ 0 <= yy /\ yy < q.size
                       THEN setFunctionModule(q, xx, yy, dist # 2 /\ dist # 4)
                       ELSE q,
                       x, y, k + 1)

drawFinderPattern(q, x, y) == FinderLoop(q, x, y, 0)

\* the loops over dy, dx in -2..2, flattened: k = 5 * (dy + 2) + (dx + 2)
RECURSIVE AlignmentLoop(_, _, _, _)
AlignmentLoop(q, x, y, k) ==
    IF k >= 25 \/ q.err # NoErr THEN q
    ELSE LET dy == (k \div 5) - 2
             dx == (k % 5) - 2
         IN AlignmentLoop(setFunctionModule(q, x + dx, y + dy, Max(Abs(dx), Abs(dy)) # 1),
                          x, y, k + 1)

drawAlignmentPattern(q, x, y) == AlignmentLoop(q, x, y, 0)

\* Math.ceil(a / b) for a >= 0, b > 0
CeilDiv(a, b) == (a + b - 1) \div b

\* result.splice(1, 0, pos) while result.length < numAlign
RECURSIVE AlignPosLoop(_, _, _, _)
AlignPosLoop(result, pos, step, numAlign) ==
    IF Len(result) >= numAlign THEN result
    ELSE AlignPosLoop(<<result[1], pos>> \o Tail(result), pos - step, step, numAlign)

getAlignmentPatternPositions(version) ==
    IF version = 1 THEN <<>>
    ELSE LET numAlign == (version \div 7) + 2
             step == IF version = 32 THEN 26
                     ELSE CeilDiv(version * 4 + 4, numAlign * 2 - 2) * 2
         IN AlignPosLoop(<<6>>, (version * 4 + 17) - 7, step, numAlign)

\* rem = (rem << 1) ^ ((rem >>> s) * g), n times
RECURSIVE BchRemainder(_, _, _, _)
BchRemainder(rem, n, s, g) ==
    IF n = 0 THEN rem
    ELSE BchRemainder(Xor(rem * 2, Shr(rem, s) * g), n - 1, s, g)

\* the 15 format bits for an error correction level and a mask
FormatBits(ecl, mask) ==
    LET data == ecl.formatBits * 8 + mask
        rem == BchRemainder(data, 10, 9, 1335)
    IN Xor(data * 1024 + rem, 21522)

\* the module writes of drawFormatBits in program order: <<x, y, bit index>>
FormatWrites(size) ==
    [i \in 1..6 |-> <<8, i - 1, i - 1>>]
    \o << <<8, 7, 6>>, <<8, 8, 7>>, <<7, 8, 8>> >>
    \o [k \in 1..6 |-> <<14 - (k + 8), 8, k + 8>>]
    \o [k \in 1..8 |-> <<size - 1 - (k - 1), 8, k - 1>>]
    \o [k \in 1..7 |-> <<8, size - 15 + (k + 7), k + 7>>]

RECURSIVE FormatLoop(_, _, _, _)
FormatLoop(q, writes, bits, k) ==
    IF k > Len(writes) \/ q.err # NoErr THEN q
    ELSE FormatLoop(setFunctionModule(q, writes[k][1], writes[k][2], getBit(bits, writes[k][3])),
                    writes, bits, k + 1)

drawFormatBits(q, mask) ==
    IF q.err # NoErr THEN q
    ELSE LET bits == FormatBits(q.errorCorrectionLevel, mask)
         IN IF Shr(bits, 15) # 0 THEN [q EXCEPT !.err = AssertionError]
            ELSE setFunctionModule(FormatLoop(q, FormatWrites(q.size), bits, 1),
                                   8, q.size - 8, TRUE)

RECURSIVE VersionLoop(_, _, _)
VersionLoop(q, bits, i) ==
    IF i >= 18 \/ q.err # NoErr THEN q
    ELSE LET color == getBit(bits, i)
             a == q.size - 11 + (i % 3)
             b == i \div 3
         IN VersionLoop(setFunctionModule(setFunctionModule(q, a, b, color), b, a, color),
                        bits, i + 1)

drawVersion(q) ==
    IF q.err # NoErr \/ q.version < 7 THEN q
    ELSE LET rem == BchRemainder(q.version, 12, 11, 7973)
             bits == q.version * 4096 + rem
         IN IF Shr(bits, 18) # 0 THEN [q EXCEPT !.err = AssertionError]
            ELSE VersionLoop(q, bits, 0)

RECURSIVE TimingLoop(_, _)
TimingLoop(q, i) ==
    IF i >= q.size THEN q
    ELSE TimingLoop(setFunctionModule(setFunctionModule(q, 6, i, i % 2 = 0), i, 6, i % 2 = 0),
                    i + 1)

\* the loops over i, j < numAlign, flattened: k = numAlign * i + j
RECURSIVE AlignmentsLoop(_, _, _)
AlignmentsLoop(q, alignPatPos, k) ==
    LET numAlign == Len(alignPatPos)
        i == k \div numAlign
        j == k % numAlign
    IN IF numAlign = 0 \/ k >= numAlign * numAlign \/ q.err # NoErr THEN q
       ELSE AlignmentsLoop(
                IF ~((i = 0 /\ j = 0) \/ (i = 0 /\ j = numAlign - 1)
                     \/ (i = numAlign - 1 /\ j = 0))
                THEN drawAlignmentPattern(q, alignPatPos[i + 1], alignPatPos[j + 1])
                ELSE q,
                alignPatPos, k + 1)

drawFunctionPatterns(q) ==
    LET q1 == TimingLoop(q, 0)
        q2 == drawFinderPattern(q1, 3, 3)
        q3 == drawFinderPattern(q2, q.size - 4, 3)
        q4 == drawFinderPattern(q3, 3, q.size - 4)
        q5 == AlignmentsLoop(q4, getAlignmentPatternPositions(q.version), 0)
        q6 == drawFormatBits(q5, 0)
    IN drawVersion(q6)

\* ------------------------------------------------------------------------
\* QrCode: codewords and masking
\* ------------------------------------------------------------------------
\* the loops over vert and j for one column pair, flattened: k = 2 * vert + j;
\* st = [k, modules, i] with i the bit index into the data
RECURSIVE ZigzagColumn(_, _, _, _)
ZigzagColumn(q, data, right, st) ==
    IF st.k >= 2 * q.size THEN st
    ELSE LET vert == st.k \div 2
             j == st.k % 2
             x == right - j
             upward == ((right + 1) \div 2) % 2 = 0
             y == IF upward THEN q.size - 1 - vert ELSE vert
         IN ZigzagColumn(q, data, right,
                IF ~q.isFunction[y + 1][x + 1] /\ st.i < Len(data) * 8
                THEN [k |-> st.k + 1,
                      modules |-> [st.modules EXCEPT ![y + 1][x + 1] =
                                      getBit(data[(st.i \div 8) + 1], 7 - (st.i % 8))],
                      i |-> st.i + 1]
                ELSE [st EXCEPT !.k = st.k + 1])

\* the loop over right = size - 1, size - 3, ..., skipping column 6;
\* st = [right, modules, i]
AfterColumn(right, col) == [right |-> right - 2, modules |-> col.modules, i |-> col.i]

\* A faulty variant of ZigzagLoop: the timing column 6 is not skipped.
RECURSIVE ZigzagLoopNoSkip(_, _, _)
ZigzagLoopNoSkip(q, data, st) ==
    IF st.right < 1 THEN st
    ELSE ZigzagLoopNoSkip(q, data,
            AfterColumn(st.right,
                ZigzagColumn(q, data, st.right,
                             [k |-> 0, modules |-> st.modules, i |-> st.i])))

RECURSIVE ZigzagLoop(_, _, _)
ZigzagLoop(q, data, st) ==
    IF st.right < 1 THEN st
    ELSE LET right == IF st.right = 6 THEN 5 ELSE st.right
         IN ZigzagLoop(q, data,
                AfterColumn(right,
                    ZigzagColumn(q, data, right,
                                 [k |-> 0, modules |-> st.modules, i |-> st.i])))

\* QrCodeUtil.assert(i == data.length * 8)
ZigzagChecked(q, data, st) ==
    IF st.i # Len(data) * 8
    THEN [q EXCEPT !.modules = st.modules, !.err = AssertionError]
    ELSE [q EXCEPT !.modules = st.modules]

drawCodewords(q, data) ==
    IF q.err # NoErr THEN q
    ELSE IF Len(data) # getNumRawDataModules(q.version) \div 8
    THEN [q EXCEPT !.err = "RangeError: Invalid argument"]
    ELSE ZigzagChecked(q, data,
            ZigzagLoop(q, data, [right |-> q.size - 1, modules |-> q.modules, i |-> 0]))

\* the switch of applyMask, for 0 <= mask <= 7
MaskInvert(mask, x, y) ==
    CASE mask = 0 -> (x + y) % 2 = 0
      [] mask = 1 -> y % 2 = 0
      [] mask = 2 -> x % 3 = 0
      [] mask = 3 -> (x + y) % 3 = 0
      [] mask = 4 -> ((x \div 3) + (y \div 2)) % 2 = 0
      [] mask = 5 -> ((x * y) % 2) + ((x * y) % 3) = 0
      [] mask = 6 -> (((x * y) % 2) + ((x * y) % 3)) % 2 = 0
      [] mask = 7 -> (((x + y) % 2) + ((x * y) % 3)) % 2 = 0

\* A faulty variant of applyMask: the pattern is OR-ed in instead of XOR-ed.
applyMaskSets(q, mask) ==
    IF q.err # NoErr THEN q
    ELSE IF mask < 0 \/ mask > 7
    THEN [q EXCEPT !.err = "RangeError: Mask value out of range"]
    ELSE [q EXCEPT !.modules =
            Arr([yy \in 1..q.size |->
                Arr([xx \in 1..q.size |->
                    IF ~q.isFunction[yy][xx] /\ MaskInvert(mask, xx - 1, yy - 1)
                    THEN TRUE
                    ELSE q.modules[yy][xx]])])]

\* A faulty variant of applyMask: function modules are masked too.
applyMaskEverywhere(q, mask) ==
    IF q.err # NoErr THEN q
    ELSE IF mask < 0 \/ mask > 7
    THEN [q EXCEPT !.err = "RangeError: Mask value out of range"]
    ELSE [q EXCEPT !.modules =
            Arr([yy \in 1..q.size |->
                Arr([xx \in 1..q.size |->
                    IF MaskInvert(mask, xx - 1, yy - 1)
                    THEN ~q.modules[yy][xx]
                    ELSE q.modules[yy][xx]])])]

applyMask(q, mask) ==
    IF q.err # NoErr THEN q
    ELSE IF mask < 0 \/ mask > 7
    THEN [q EXCEPT !.err = "RangeError: Mask value out of range"]
    ELSE [q EXCEPT !.modules =
            Arr([yy \in 1..q.size |->
                Arr([xx \in 1..q.size |->
                    IF ~q.isFunction[yy][xx] /\ MaskInvert(mask, xx - 1, yy - 1)
                    THEN ~q.modules[yy][xx]
                    ELSE q.modules[yy][xx]])])]

\* ------------------------------------------------------------------------
\* QrCode: penalty score
\* ------------------------------------------------------------------------
finderPenaltyAddHistory(size, currentRunLength, runHistory) ==
    <<IF runHistory[1] = 0 THEN currentRunLength + size ELSE currentRunLength>>
    \o SubSeq(runHistory, 1, 6)

finderPenaltyCountPatterns(runHistory) ==
    LET n == runHistory[2]
        core == n > 0 /\ runHistory[3] = n /\ runHistory[4] = n * 3
                /\ runHistory[5] = n /\ runHistory[6] = n
    IN (IF core /\ runHistory[1] >= n * 4 /\ runHistory[7] >= n THEN 1 ELSE 0)
       + (IF core /\ runHistory[7] >= n * 4 /\ runHistory[1] >= n THEN 1 ELSE 0)

finderPenaltyTerminateAndCount(size, currentRunColor, currentRunLength, runHistory) ==
    LET h1 == IF currentRunColor
              THEN finderPenaltyAddHistory(size, currentRunLength, runHistory)
              ELSE runHistory
        len1 == (IF currentRunColor THEN 0 ELSE currentRunLength) + size
    IN finderPenaltyCountPatterns(finderPenaltyAddHistory(size, len1, h1))

\* the scan of one row or column (line: its modules in order);
\* st = [p, runColor, run, runHistory, result], p the 1-based position
RECURSIVE LineLoop(_, _, _)
LineLoop(size, line, st) ==
    IF st.p > size THEN st
    ELSE LineLoop(size, line,
            IF line[st.p] = st.runColor
            THEN [st EXCEPT !.p = st.p + 1,
                            !.run = st.run + 1,
                            !.result = IF st.run + 1 = 5 THEN st.result + PENALTY_N1
                                       ELSE IF st.run + 1 > 5 THEN st.result + 1
                                       ELSE st.result]
            ELSE LET h == finderPenaltyAddHistory(size, st.run, st.runHistory)
                 IN [p |-> st.p + 1,
                     runColor |-> line[st.p],
                     run |-> 1,
                     runHistory |-> h,
                     result |-> IF ~st.runColor
                                THEN st.result + finderPenaltyCountPatterns(h) * PENALTY_N3
                                ELSE st.result])

LineEnd(size, st) ==
    st.result
    + finderPenaltyTerminateAndCount(size, st.runColor, st.run, st.runHistory) * PENALTY_N3

LinePenalty(size, line) ==
    LineEnd(size, LineLoop(size, line,
                    [p |-> 1, runColor |-> FALSE, run |-> 0,
                     runHistory |-> <<0, 0, 0, 0, 0, 0, 0>>, result |-> 0]))

RECURSIVE SumTo(_, _)
SumTo(f, n) == IF n = 0 THEN 0 ELSE f[n] + SumTo(f, n - 1)

\* "Adjacent modules in row having same color, and finder-like patterns"
RowsPenalty(q) ==
    SumTo(Arr([y \in 1..q.size |-> LinePenalty(q.size, q.modules[y])]), q.size)

\* "Adjacent modules in column having same color, and finder-like patterns"
ColumnsPenalty(q) ==
    SumTo(Arr([x \in 1..q.size |->
                  LinePenalty(q.size, Arr([y \in 1..q.size |-> q.modules[y][x]]))]),
          q.size)

\* "2*2 blocks of modules having same color"
BlocksPenalty(q) ==
    PENALTY_N2
    * Cardinality({c \in (1..(q.size - 1)) \X (1..(q.size - 1)) :
                      /\ q.modules[c[2]][c[1]] = q.modules[c[2]][c[1] + 1]
                      /\ q.modules[c[2]][c[1]] = q.modules[c[2] + 1][c[1]]
                      /\ q.modules[c[2]][c[1]] = q.modules[c[2] + 1][c[1] + 1]})

DarkCount(q) == Cardinality({c \in (1..q.size) \X (1..q.size) : q.modules[c[2]][c[1]]})

\* A faulty variant of BalanceK: the ceiling is not decremented.
BalanceKCeiling(dark, total) == CeilDiv(Abs(dark * 20 - total * 10), total)

\* Math.ceil(Math.abs(dark * 20 - total * 10) / total) - 1
BalanceK(dark, total) == CeilDiv(Abs(dark * 20 - total * 10), total) - 1

\* the two assertions at the end of getPenaltyScore
PenaltyChecked(k, result) ==
    IF ~(0 <= k /\ k <= 9) \/ ~(0 <= result /\ result <= 2568888)
    THEN [err |-> AssertionError, result |-> result]
    ELSE [err |-> NoErr, result |-> result]

PenaltyBalanced(k, result) == PenaltyChecked(k, result + k * PENALTY_N4)

\* [err, result]: the score, or the assertion that failed
getPenaltyScore(q) ==
    PenaltyBalanced(BalanceK(DarkCount(q), q.size * q.size),
                    RowsPenalty(q) + ColumnsPenalty(q) + BlocksPenalty(q))

\* ------------------------------------------------------------------------
\* QrCode: constructor
\* ------------------------------------------------------------------------
\* one mask tried: q1 is the grid with mask st.i and its format bits drawn
\* A faulty variant of MaskTried: the trial mask is not undone before the next.
MaskTriedNotUndone(st, q1, penalty) ==
    IF penalty.err # NoErr
    THEN [st EXCEPT !.q = [q1 EXCEPT !.err = penalty.err]]
    ELSE [q |-> q1,
          i |-> st.i + 1,
          msk |-> IF penalty.result < st.minPenalty THEN st.i ELSE st.msk,
          minPenalty |-> IF penalty.result < st.minPenalty
                         THEN penalty.result ELSE st.minPenalty]

MaskTried(st, q1, penalty) ==
    IF penalty.err # NoErr
    THEN [st EXCEPT !.q = [q1 EXCEPT !.err = penalty.err]]
    ELSE [q |-> applyMask(q1, st.i),
          i |-> st.i + 1,
          msk |-> IF penalty.result < st.minPenalty THEN st.i ELSE st.msk,
          minPenalty |-> IF penalty.result < st.minPenalty
                         THEN penalty.result ELSE st.minPenalty]

MaskTry(st, q1) == MaskTried(st, q1, getPenaltyScore(q1))

\* the automatic mask choice; st = [q, i, msk, minPenalty]
RECURSIVE MaskLoop(_)
MaskLoop(st) ==
    IF st.i >= 8 \/ st.q.err # NoErr THEN st
    ELSE MaskLoop(MaskTry(st, drawFormatBits(applyMask(st.q, st.i), st.i)))

\* A faulty variant of FinalMask: the mask applied is not stored in this.mask.
FinalMaskNotStored(q, msk) ==
    IF q.err # NoErr THEN [err |-> q.err]
    ELSE IF ~(0 <= msk /\ msk <= 7) THEN [err |-> AssertionError]
    ELSE [drawFormatBits(applyMask(q, msk), msk) EXCEPT !.isFunction = <<>>]

\* A faulty variant of FinalMask: the format bits are not redrawn for the mask.
FinalMaskStaleFormat(q, msk) ==
    IF q.err # NoErr THEN [err |-> q.err]
    ELSE IF ~(0 <= msk /\ msk <= 7) THEN [err |-> AssertionError]
    ELSE [applyMask([q EXCEPT !.mask = msk], msk) EXCEPT !.isFunction = <<>>]

\* this.isFunction = []
Finished(q) ==
    IF q.err # NoErr THEN [err |-> q.err]
    ELSE [q EXCEPT !.isFunction = <<>>]

\* assert(0 <= msk && msk <= 7); this.mask = msk; applyMask(msk); drawFormatBits(msk)
FinalMask(q, msk) ==
    IF q.err # NoErr THEN [err |-> q.err]
    ELSE IF ~(0 <= msk /\ msk <= 7) THEN [err |-> AssertionError]
    ELSE Finished(drawFormatBits(applyMask([q EXCEPT !.mask = msk], msk), msk))

ChosenMask(st) == FinalMask(st.q, st.msk)

\* "Do masking"
DoMasking(q, msk) ==
    IF msk = -1
    THEN ChosenMask(MaskLoop([q |-> q, i |-> 0, msk |-> msk, minPenalty |-> 1000000000]))
    ELSE FinalMask(q, msk)

DrawAll(q, allCodewords) ==
    IF allCodewords.err # NoErr
    THEN [q EXCEPT !.err = allCodewords.err]
    ELSE drawCodewords(q, allCodewords.result)

\* "Initialize both grids to be size*size arrays of Boolean false"
NewGrids(ver, ecl, msk) ==
    [err |-> NoErr, version |-> ver, errorCorrectionLevel |-> ecl,
     size |-> ver * 4 + 17, mask |-> msk,
     modules |-> Arr([i \in 1..(ver * 4 + 17) |-> Arr([j \in 1..(ver * 4 + 17) |-> FALSE])]),
     isFunction |-> Arr([i \in 1..(ver * 4 + 17) |-> Arr([j \in 1..(ver * 4 + 17) |-> FALSE])])]

\* new QrCode(version, errorCorrectionLevel, dataCodewords, msk)
QrCode(version, errorCorrectionLevel, dataCodewords, msk) ==
    IF version < MIN_VERSION \/ version > MAX_VERSION
    THEN [err |-> "RangeError: Version value out of range"]
    ELSE IF msk < -1 \/ msk > 7
    THEN [err |-> "RangeError: Mask value out of range"]
    ELSE DoMasking(
            DrawAll(drawFunctionPatterns(NewGrids(version, errorCorrectionLevel, msk)),
                    addEccAndInterleave(dataCodewords, version, errorCorrectionLevel)),
            msk)

\* The grids of the symbol under construction once the function patterns and
\* the codewords are drawn and before any mask is applied.
Unmasked(a) ==
    DrawAll(drawFunctionPatterns(NewGrids(a.version, a.ecl, a.mask)),
            addEccAndInterleave(a.dataCodewords, a.version, a.ecl))

\* A faulty variant of getModule: coordinates out of bounds wrap around.
getModuleWrapped(qr, x, y) == qr.modules[(y % qr.size) + 1][(x % qr.size) + 1]

getModule(qr, x, y) ==
    0 <= x /\ x < qr.size /\ 0 <= y /\ y < qr.size /\ qr.modules[y + 1][x + 1]

\* ------------------------------------------------------------------------
\* QrCode: static factory functions
\* ------------------------------------------------------------------------
\* A faulty variant of FindVersion: the end of the range is tested before the fit,
\* so maxVersion itself is never accepted.
RECURSIVE FindVersionBelowMax(_, _, _, _)
FindVersionBelowMax(segs, ecl, version, maxVersion) ==
    IF version >= maxVersion
    THEN [err |-> "RangeError: Data too long"]
    ELSE IF getTotalBits(segs, version) <= getNumDataCodewords(version, ecl) * 8
    THEN [err |-> NoErr, version |-> version,
          dataUsedBits |-> getTotalBits(segs, version)]
    ELSE FindVersionBelowMax(segs, ecl, version + 1, maxVersion)

\* the loop "Find the minimal version number to use"
RECURSIVE FindVersion(_, _, _, _)
FindVersion(segs, ecl, version, maxVersion) ==
    LET dataCapacityBits == getNumDataCodewords(version, ecl) * 8
        usedBits == getTotalBits(segs, version)
    IN IF usedBits <= dataCapacityBits
       THEN [err |-> NoErr, version |-> version, dataUsedBits |-> usedBits]
       ELSE IF version >= maxVersion
       THEN [err |-> "RangeError: Data too long"]
       ELSE FindVersion(segs, ecl, version + 1, maxVersion)

\* A faulty variant of BoostLoop: the level is raised whether or not boostEcl is set.
RECURSIVE BoostLoopUnconditional(_, _, _, _, _, _)
BoostLoopUnconditional(ecl, levels, k, boostEcl, dataUsedBits, version) ==
    IF k > Len(levels) THEN ecl
    ELSE BoostLoopUnconditional(
            IF dataUsedBits <= getNumDataCodewords(version, levels[k]) * 8
            THEN levels[k] ELSE ecl,
            levels, k + 1, boostEcl, dataUsedBits, version)

\* the loop over newEcl in [MEDIUM, QUARTILE, HIGH]
RECURSIVE BoostLoop(_, _, _, _, _, _)
BoostLoop(ecl, levels, k, boostEcl, dataUsedBits, version) ==
    IF k > Len(levels) THEN ecl
    ELSE BoostLoop(IF boostEcl /\ dataUsedBits <= getNumDataCodewords(version, levels[k]) * 8
                   THEN levels[k] ELSE ecl,
                   levels, k + 1, boostEcl, dataUsedBits, version)

\* the loop "Concatenate all segments to create the data bit string"
RECURSIVE SegmentBits(_, _, _)
SegmentBits(segs, version, k) ==
    IF k > Len(segs) THEN <<>>
    ELSE LET seg == segs[k]
         IN appendBits(seg.mode.modeBits, 4, <<>>).bb
            \o appendBits(seg.numChars, numCharCountBits(seg.mode, version), <<>>).bb
            \o getData(seg)
            \o SegmentBits(segs, version, k + 1)

\* the pad bytes 0xEC, 0x11, 0xEC, ... (padnumber ^= 0xEC ^ 0x11 alternates the two)
\* appended while bb.length < dataCapacityBits
PadBits(len, dataCapacityBits) ==
    IF len >= dataCapacityBits THEN <<>>
    ELSE Arr([k \in 1..(8 * CeilDiv(dataCapacityBits - len, 8)) |->
                BitAt(IF ((k - 1) \div 8) % 2 = 0 THEN 236 ELSE Xor(236, Xor(236, 17)),
                      7 - ((k - 1) % 8))])

\* "Pack bits into bytes in big endian"
PackBits(bb) ==
    Arr([c \in 1..CeilDiv(Len(bb), 8) |->
            LET bit(t) == IF 8 * (c - 1) + t + 1 <= Len(bb)
                          THEN bb[8 * (c - 1) + t + 1] * (2 ^ (7 - t)) ELSE 0
            IN bit(0) + bit(1) + bit(2) + bit(3) + bit(4) + bit(5) + bit(6) + bit(7)])

\* "Pack bits into bytes in big endian", after assert(bb.length % 8 == 0) and the padding
Packed(version, ecl, bb, dataCapacityBits, mask) ==
    IF Len(bb) % 8 # 0 THEN [err |-> AssertionError]
    ELSE [err |-> NoErr, version |-> version, ecl |-> ecl,
          dataCodewords |-> PackBits(bb \o PadBits(Len(bb), dataCapacityBits)),
          mask |-> mask]

\* A faulty variant of Terminated: four terminator bits whatever room is left.
TerminatedFourBits(bb, dataCapacityBits) == appendBits(0, 4, bb).bb

\* "Add terminator and pad up to a byte if applicable"
Terminated(bb, dataCapacityBits) ==
    appendBits(0, Min(4, dataCapacityBits - Len(bb)), bb).bb

PaddedToByte(bb) == appendBits(0, (8 - (Len(bb) % 8)) % 8, bb).bb

\* from the concatenated segment bits bb to the data codewords
Assembled(version, ecl, dataUsedBits, bb, mask) ==
    IF Len(bb) # dataUsedBits \/ ~(Len(bb) <= getNumDataCodewords(version, ecl) * 8)
    THEN [err |-> AssertionError]
    ELSE Packed(version, ecl,
                PaddedToByte(Terminated(bb, getNumDataCodewords(version, ecl) * 8)),
                getNumDataCodewords(version, ecl) * 8, mask)

\* found: the result of the version loop
Boosted(segs, ecl0, found, mask, boostEcl) ==
    IF found.err # NoErr THEN found
    ELSE Assembled(found.version,
                   BoostLoop(ecl0, <<MEDIUM, QUARTILE, HIGH>>, 1, boostEcl,
                             found.dataUsedBits, found.version),
                   found.dataUsedBits,
                   SegmentBits(segs, found.version, 1),
                   mask)

\* A faulty variant of encodeSegmentsArgs: minVersion <= maxVersion is not checked.
encodeSegmentsArgsUnordered(segs, ecl, minVersion, maxVersion, mask, boostEcl) ==
    IF ~(MIN_VERSION <= minVersion /\ maxVersion <= MAX_VERSION)
       \/ mask < -1 \/ mask > 7
    THEN [err |-> "RangeError: Invalid value"]
    ELSE Boosted(segs, ecl, FindVersion(segs, ecl, minVersion, maxVersion), mask, boostEcl)

\* encodeSegments up to the constructor call: the arguments
\* [version, ecl, dataCodewords, mask] of new QrCode(...), or the error thrown
encodeSegmentsArgs(segs, ecl, minVersion, maxVersion, mask, boostEcl) ==
    IF ~(MIN_VERSION <= minVersion /\ minVersion <= maxVersion /\ maxVersion <= MAX_VERSION)
       \/ mask < -1 \/ mask > 7
    THEN [err |-> "RangeError: Invalid value"]
    ELSE Boosted(segs, ecl, FindVersion(segs, ecl, minVersion, maxVersion), mask, boostEcl)

\* return new QrCode(version, ecl, dataCodewords, mask)
Constructed(a) ==
    IF a.err # NoErr THEN a
    ELSE QrCode(a.version, a.ecl, a.dataCodewords, a.mask)

encodeSegments(segs, ecl, minVersion, maxVersion, mask, boostEcl) ==
    Constructed(encodeSegmentsArgs(segs, ecl, minVersion, maxVersion, mask, boostEcl))

\* the segments made, handed to encodeSegments with its default arguments
EncodeMade(m, ecl) ==
    IF m.err # NoErr THEN [err |-> m.err]
    ELSE encodeSegments(m.segs, ecl, 1, 40, -1, TRUE)

\* QrCode.encodeText(text, ecl): the defaults of encodeSegments apply
encodeText(text, ecl) == EncodeMade(makeSegments(text), ecl)

\* a lone segment, as a list of segments
OneSegment(s) ==
    IF s.err # NoErr THEN [err |-> s.err, segs |-> <<>>]
    ELSE [err |-> NoErr, segs |-> <<s>>]

\* QrCode.encodeBinary(data, ecl)
encodeBinary(data, ecl) == EncodeMade(OneSegment(makeBytes(data)), ecl)

\* ========================================================================
\* State
\* ========================================================================
\* Bounds of the model
MaxCtorVersion == 2     \* symbols of a larger version are selected but not drawn
MaxPayload == 60        \* the longest of the small byte payloads
MaxCalls == 2           \* encode calls on one MyQrCode instance
MaxBits == 2            \* length of the bit arrays handed to and held by a QrSegment
MaxGets == 1            \* getData() calls on one QrSegment
MaxMaskSteps == 2       \* applyMask / drawFormatBits calls on one grid
MaxEccVersion == 9      \* largest version whose codewords are interleaved

\* "The maximum number of bytes allowed is 2953"
MaxByteCount == 2953

\* -- calls of the static factory functions of QrCode ----------------------
VARIABLES
    pc,         \* "idle", "construct" (about to call new QrCode), "returned", "thrown"
    call,       \* the call made: [fn, segs, ecl, minVersion, ..., boostEcl] and, for
                \* encodeText / encodeBinary, the text / data the segments are made of
    sel,        \* the result of encodeSegments up to the constructor call
    ret         \* the symbol returned, or the error thrown

selVars == <<pc, call, sel, ret>>

None == [none |-> TRUE]

\* -- a MyQrCode instance and its caller -----------------------------------
VARIABLES
    qrEcc, minVersion, maxVersion, version, mask, boostEcl,
    dataText, dataBinary, size, marix,      \* the fields of MyQrCode
    thrown,     \* the error thrown by the last call, or NoErr
    calls,      \* number of encodeText / encodeBinary calls made
    failed,     \* TRUE once an encodeText / encodeBinary call has thrown
    cfg,        \* the parameters given to the constructor or to the last updateParam,
                \* and whether updateParam has been called
    lastCall,   \* the most recent encode call: [fn, segs]
    lastQr,     \* the symbol built by the most recent successful encode call
    stored,     \* the grid as the instance itself last wrote it
    callerRef   \* what the caller holds from getMatrix(): "null", or "marix" (the
                \* array this.marix itself)

facVars == <<qrEcc, minVersion, maxVersion, version, mask, boostEcl,
             dataText, dataBinary, size, marix,
             thrown, calls, failed, cfg, lastCall, lastQr, stored, callerRef>>

\* -- a QrSegment, its bit arrays and its caller ---------------------------
VARIABLES
    heap,       \* the arrays of bits: address -> contents
    seg,        \* the segment: [mode, numChars, bitData (an address)], or None
    given,      \* address of the array the caller passed to the constructor, or 0
    got,        \* addresses of the arrays getData() returned to the caller
    bits0       \* contents of the constructor's argument when the segment was made

segVars == <<heap, seg, given, got, bits0>>

\* -- a single function or method applied to arguments -----------------------
VARIABLES
    op,         \* the application made: [fn, ...arguments], or None
    out         \* its result

fnVars == <<op, out>>

\* -- a grid under construction: the private drawing methods of QrCode ------
VARIABLES
    grid,       \* the symbol being built: [version, errorCorrectionLevel, size, mask,
                \* modules, isFunction], or None
    before,     \* the grid before the last applyMask call
    patterns,   \* a blank symbol of grid's version after drawFunctionPatterns
    lastOp,     \* the last call on the grid, [fn, mask], or None
    steps       \* number of applyMask / drawFormatBits calls made on the grid

gridVars == <<grid, before, patterns, lastOp, steps>>

vars == <<selVars, facVars, segVars, fnVars, gridVars>>

SelIdle == pc = "idle" /\ call = None /\ sel = None /\ ret = None

\* new MyQrCode({qrEcc, minVersion, maxVersion, mask, boostEcl}), every parameter given
MyQrCode(p) ==
    /\ qrEcc = p.qrEcc /\ minVersion = p.minVersion /\ maxVersion = p.maxVersion
    /\ mask = p.mask /\ boostEcl = p.boostEcl
    /\ size = 0 /\ version = p.minVersion
    /\ dataText = <<>> /\ dataBinary = <<>> /\ marix = <<>>

\* a fresh instance made with the parameters p, and a caller that holds nothing of it
Fresh(p) ==
    /\ MyQrCode(p)
    /\ thrown = NoErr /\ calls = 0 /\ failed = FALSE
    /\ cfg = [qrEcc |-> p.qrEcc, minVersion |-> p.minVersion, maxVersion |-> p.maxVersion,
              mask |-> p.mask, boostEcl |-> p.boostEcl, updated |-> FALSE]
    /\ lastCall = None /\ lastQr = None /\ stored = <<>> /\ callerRef = "null"

FacIdle ==
    Fresh([qrEcc |-> LOW, minVersion |-> 1, maxVersion |-> 40, mask |-> -1,
           boostEcl |-> TRUE])

SegIdle == heap = <<>> /\ seg = None /\ given = 0 /\ got = {} /\ bits0 = <<>>

FnIdle == op = None /\ out = None

GridIdle ==
    grid = None /\ before = None /\ patterns = None /\ lastOp = None /\ steps = 0

\* ========================================================================
\* QrCode.encodeText / encodeBinary / encodeSegments as calls
\* ========================================================================
Zeros(n) == Arr([i \in 1..n |-> 0])

\* "HELLO WORLD", "01234567", "", "a", "héllo"
TextHelloWorld == <<72, 69, 76, 76, 79, 32, 87, 79, 82, 76, 68>>
TextDigits == <<48, 49, 50, 51, 52, 53, 54, 55>>
TextLowerA == <<97>>
TextHello == <<104, 233, 108, 108, 111>>

SelTexts == {<<>>, TextHelloWorld, TextDigits, TextLowerA, TextHello}

SelSmallLens == {0, 9, 17, 18, MaxPayload}

SelSegs ==
    {<<makeBytes(Zeros(n))>> : n \in SelSmallLens}
    \cup {<<>>, <<makeAlphanumeric(TextHelloWorld)>>,
          <<makeNumeric(TextDigits), makeBytes(Zeros(9))>>}

\* valid calls
SelGridA ==
    [segs : SelSegs, ecl : QrEcc, range : {<<1, 40>>, <<1, 1>>, <<2, 3>>},
     mask : {-1, 3}, boostEcl : BOOLEAN]

\* calls at and beyond the limits of the argument ranges
SelGridB ==
    [segs : {<<makeBytes(Zeros(0))>>, <<makeBytes(Zeros(MaxPayload))>>},
     ecl : {LOW, HIGH},
     range : {<<40, 40>>, <<1, 1>>, <<0, 40>>, <<1, 41>>, <<3, 2>>, <<41, 41>>, <<0, 0>>},
     mask : {-2, -1, 0, 7, 8}, boostEcl : {TRUE}]

\* what the call returns before the constructor runs, and where it goes next
Selected(a) ==
    /\ sel' = a
    /\ pc' = IF a.err # NoErr THEN "thrown" ELSE "construct"
    /\ ret' = IF a.err # NoErr THEN a ELSE None

\* EncodeMade up to the constructor call
ArgsOfMade(m, ecl) ==
    IF m.err # NoErr THEN [err |-> m.err]
    ELSE encodeSegmentsArgs(m.segs, ecl, 1, 40, -1, TRUE)

CallEncodeText ==
    \E text \in SelTexts, ecl \in QrEcc :
        /\ pc = "idle"
        /\ call' = [fn |-> "encodeText", text |-> text,
                    segs |-> makeSegments(text).segs, ecl |-> ecl,
                    minVersion |-> 1, maxVersion |-> 40, mask |-> -1, boostEcl |-> TRUE]
        /\ Selected(ArgsOfMade(makeSegments(text), ecl))
        /\ UNCHANGED <<facVars, segVars, fnVars, gridVars>>

CallEncodeBinary ==
    \E n \in {0, 17, 18, MaxByteCount, MaxByteCount + 1}, ecl \in QrEcc :
        /\ pc = "idle"
        /\ call' = [fn |-> "encodeBinary", data |-> Zeros(n),
                    segs |-> <<makeBytes(Zeros(n))>>, ecl |-> ecl,
                    minVersion |-> 1, maxVersion |-> 40, mask |-> -1, boostEcl |-> TRUE]
        /\ Selected(ArgsOfMade(OneSegment(makeBytes(Zeros(n))), ecl))
        /\ UNCHANGED <<facVars, segVars, fnVars, gridVars>>

CallEncodeSegments ==
    \E c \in SelGridA \cup SelGridB :
        /\ pc = "idle"
        /\ call' = [fn |-> "encodeSegments", segs |-> c.segs, ecl |-> c.ecl,
                    minVersion |-> c.range[1], maxVersion |-> c.range[2],
                    mask |-> c.mask, boostEcl |-> c.boostEcl]
        /\ Selected(encodeSegmentsArgs(c.segs, c.ecl, c.range[1], c.range[2],
                                       c.mask, c.boostEcl))
        /\ UNCHANGED <<facVars, segVars, fnVars, gridVars>>

\* return new QrCode(version, ecl, dataCodewords, mask)
Construct ==
    /\ pc = "construct"
    /\ sel.version <= MaxCtorVersion
    /\ ret' = QrCode(sel.version, sel.ecl, sel.dataCodewords, sel.mask)
    /\ pc' = IF ret'.err # NoErr THEN "thrown" ELSE "returned"
    /\ UNCHANGED <<call, sel, facVars, segVars, fnVars, gridVars>>

SelInit == SelIdle /\ FacIdle /\ SegIdle /\ FnIdle /\ GridIdle

SelNext == CallEncodeText \/ CallEncodeBinary \/ CallEncodeSegments \/ Construct

SpecSel == SelInit /\ [][SelNext]_vars

\* ========================================================================
\* MyQrCode: one instance and the caller that holds it
\* ========================================================================
\* the parameters an instance is made with
FacConfigs ==
    {[qrEcc |-> LOW, minVersion |-> 1, maxVersion |-> 40, mask |-> -1, boostEcl |-> TRUE],
     [qrEcc |-> QUARTILE, minVersion |-> 1, maxVersion |-> 40, mask |-> 2, boostEcl |-> FALSE],
     [qrEcc |-> QUARTILE, minVersion |-> 1, maxVersion |-> 1, mask |-> 0, boostEcl |-> TRUE]}

\* the arguments of updateParam; qrEcc may be left out
FacUpdates ==
    {[minVersion |-> 1, maxVersion |-> 1, mask |-> 0, boostEcl |-> TRUE],
     [qrEcc |-> MEDIUM, minVersion |-> 1, maxVersion |-> 40, mask |-> -1,
      boostEcl |-> FALSE]}

\* "" and "HELLO WORLD"
FacTexts == {<<>>, TextHelloWorld}

\* twelve bytes 0x00
FacBinaries == {Zeros(12)}

\* the getters
getVersion == version
getSize == size
getDataText == dataText
getDataBinay == dataBinary
getMatrix == marix
getPoint(x, y) == marix[y + 1][x + 1]

\* QrCode.encodeSegments(segs, this.qrEcc, this.minVersion, this.maxVersion,
\*                       this.mask, this.boostEcl), or the error makeSegments throws
EncodeWithFields(m) ==
    IF m.err # NoErr THEN [err |-> m.err]
    ELSE encodeSegments(m.segs, qrEcc, minVersion, maxVersion, mask, boostEcl)

\* for y < size: this.marix[y] = []; for x < size: this.marix[y][x] = qr.getModule(x, y).
\* The rows of old from qr.size on are left as they are.
Rows(old, qr) ==
    Arr([y \in 1..Max(Len(old), qr.size) |->
            IF y <= qr.size
            THEN Arr([x \in 1..qr.size |-> getModule(qr, x - 1, y - 1)])
            ELSE old[y]])

\* the part of encodeText / encodeBinary after the data is stored: qr is the
\* symbol built, or the error thrown while building it
Encoded(qr) ==
    IF qr.err # NoErr
    THEN /\ thrown' = qr.err
         /\ failed' = TRUE
         /\ UNCHANGED <<size, mask, version, qrEcc, marix, lastQr, stored>>
    ELSE /\ thrown' = NoErr
         /\ size' = qr.size
         /\ mask' = qr.mask
         /\ version' = qr.version
         /\ qrEcc' = qr.errorCorrectionLevel
         /\ marix' = Rows(marix, qr)
         /\ lastQr' = qr
         /\ stored' = marix'
         /\ UNCHANGED failed

EncodeText ==
    \E data \in FacTexts :
        /\ calls < MaxCalls
        /\ calls' = calls + 1
        /\ dataText' = data
        /\ lastCall' = [fn |-> "encodeText", segs |-> makeSegments(data).segs]
        /\ Encoded(EncodeWithFields(makeSegments(data)))
        /\ UNCHANGED <<minVersion, maxVersion, boostEcl, dataBinary, cfg, callerRef,
                       selVars, segVars, fnVars, gridVars>>

EncodeBinary ==
    \E data \in FacBinaries :
        /\ calls < MaxCalls
        /\ calls' = calls + 1
        /\ dataBinary' = data
        /\ lastCall' = [fn |-> "encodeBinary", segs |-> <<makeBytes(data)>>]
        /\ Encoded(EncodeWithFields(OneSegment(makeBytes(data))))
        /\ UNCHANGED <<minVersion, maxVersion, boostEcl, dataText, cfg, callerRef,
                       selVars, segVars, fnVars, gridVars>>

\* The values given are never null or undefined, so every ?? takes its left side.
\* updateParam(p): a field left out of p takes the default of the destructuring
\* pattern, so that the ?? fallback to the old value never applies
UpdateParamOf(p) ==
    /\ qrEcc' = IF "qrEcc" \in DOMAIN p THEN p.qrEcc ELSE HIGH
    /\ minVersion' = p.minVersion
    /\ maxVersion' = p.maxVersion
    /\ mask' = p.mask
    /\ boostEcl' = p.boostEcl
    /\ cfg' = [qrEcc |-> qrEcc', minVersion |-> p.minVersion,
               maxVersion |-> p.maxVersion, mask |-> p.mask,
               boostEcl |-> p.boostEcl, updated |-> TRUE]
    /\ thrown' = NoErr
    /\ UNCHANGED <<version, dataText, dataBinary, size, marix, calls, failed,
                   lastCall, lastQr, stored, callerRef, selVars, segVars, fnVars, gridVars>>

UpdateParam == \E p \in FacUpdates : UpdateParamOf(p)

\* const m = myQr.getMatrix(): return this.marix
CallGetMatrix ==
    /\ callerRef = "null"
    /\ callerRef' = "marix"
    /\ thrown' = NoErr
    /\ UNCHANGED <<qrEcc, minVersion, maxVersion, version, mask, boostEcl, dataText,
                   dataBinary, size, marix, calls, failed, cfg, lastCall, lastQr,
                   stored, selVars, segVars, fnVars, gridVars>>

\* the caller: m[0][0] = !m[0][0] on the array it got
CallerWritesPoint ==
    /\ callerRef = "marix"
    /\ marix # <<>>
    /\ marix' = [marix EXCEPT ![1][1] = ~@]
    /\ UNCHANGED <<qrEcc, minVersion, maxVersion, version, mask, boostEcl, dataText,
                   dataBinary, size, thrown, calls, failed, cfg, lastCall, lastQr,
                   stored, callerRef, selVars, segVars, fnVars, gridVars>>

\* the caller: m.length = 0 on the array it got
CallerClears ==
    /\ callerRef = "marix"
    /\ marix # <<>>
    /\ marix' = <<>>
    /\ UNCHANGED <<qrEcc, minVersion, maxVersion, version, mask, boostEcl, dataText,
                   dataBinary, size, thrown, calls, failed, cfg, lastCall, lastQr,
                   stored, callerRef, selVars, segVars, fnVars, gridVars>>

Init == SelIdle /\ SegIdle /\ FnIdle /\ GridIdle /\ \E p \in FacConfigs : Fresh(p)

Next ==
    \/ EncodeText
    \/ EncodeBinary
    \/ UpdateParam
    \/ CallGetMatrix
    \/ CallerWritesPoint
    \/ CallerClears

Spec == Init /\ [][Next]_vars

\* ========================================================================
\* QrSegment: one segment, the arrays it holds and the arrays its caller holds
\* ========================================================================
\* A faulty variant of NewQrSegment: the array given is stored, not a copy of it.
NewQrSegmentAliased(h, mode, numChars, a) ==
    IF numChars < 0
    THEN [err |-> "RangeError: Invalid argument", heap |-> h]
    ELSE [err |-> NoErr, heap |-> h,
          seg |-> [mode |-> mode, numChars |-> numChars, bitData |-> a]]

\* new QrSegment(mode, numChars, bitData) with bitData the array at address a of
\* the heap h: this.bitData = bitData.slice() is a new array, at address Len(h) + 1
NewQrSegment(h, mode, numChars, a) ==
    IF numChars < 0
    THEN [err |-> "RangeError: Invalid argument", heap |-> h]
    ELSE [err |-> NoErr, heap |-> Append(h, h[a]),
          seg |-> [mode |-> mode, numChars |-> numChars, bitData |-> Len(h) + 1]]

\* the bit arrays of length 0..MaxBits
RECURSIVE BitArrays(_)
BitArrays(n) ==
    IF n = 0 THEN {<<>>}
    ELSE BitArrays(n - 1)
         \cup {Append(b, v) : b \in {c \in BitArrays(n - 1) : Len(c) = n - 1}, v \in {0, 1}}

\* the segment as a value: what getData() and getTotalBits read
SegValue ==
    [err |-> NoErr, mode |-> seg.mode, numChars |-> seg.numChars,
     bitData |-> heap[seg.bitData]]

\* the caller makes an array (address 1) and constructs the segment from it
MadeSegment(r, bits) ==
    /\ heap' = r.heap
    /\ seg' = IF r.err # NoErr THEN None ELSE r.seg
    /\ given' = 1
    /\ bits0' = bits

MakeSegment ==
    \E mode \in {BYTE, NUMERIC}, numChars \in {-1, 1}, bits \in BitArrays(MaxBits) :
        /\ given = 0
        /\ MadeSegment(NewQrSegment(<<bits>>, mode, numChars, 1), bits)
        /\ UNCHANGED <<got, selVars, facVars, fnVars, gridVars>>

\* const d = seg.getData(): return this.bitData.slice()
CallGetData ==
    /\ seg # None
    /\ Cardinality(got) < MaxGets
    /\ heap' = Append(heap, heap[seg.bitData])
    /\ got' = got \cup {Len(heap) + 1}
    /\ UNCHANGED <<seg, given, bits0, selVars, facVars, fnVars, gridVars>>

\* the caller: a[i] ^= 1 on an array it holds
CallerFlipsBit ==
    \E a \in {given} \cup got :
        /\ seg # None
        /\ \E i \in 1..Len(heap[a]) : heap' = [heap EXCEPT ![a][i] = 1 - @]
        /\ UNCHANGED <<seg, given, got, bits0, selVars, facVars, fnVars, gridVars>>

\* the caller: a.push(1) on an array it holds
CallerPushesBit ==
    \E a \in {given} \cup got :
        /\ seg # None
        /\ Len(heap[a]) <= MaxBits
        /\ heap' = [heap EXCEPT ![a] = Append(@, 1)]
        /\ UNCHANGED <<seg, given, got, bits0, selVars, facVars, fnVars, gridVars>>

SegInit == SelIdle /\ FacIdle /\ SegIdle /\ FnIdle /\ GridIdle

SegNext == MakeSegment \/ CallGetData \/ CallerFlipsBit \/ CallerPushesBit

SpecSeg == SegInit /\ [][SegNext]_vars

\* ========================================================================
\* Functions and methods applied to arguments, one application per behaviour
\* ========================================================================
\* ------------------------------------------------------------------------
\* Masking steps on a drawn grid (SpecMask)
\* ------------------------------------------------------------------------
\* Drawn, unmasked grids: version 1 with two payloads, version 2 (one alignment
\* pattern) and version 7 (version information, six alignment patterns).
MaskGrids ==
    {Unmasked(encodeSegmentsArgs(<<makeAlphanumeric(TextHelloWorld)>>, QUARTILE, 1, 40, -1, FALSE)),
     Unmasked(encodeSegmentsArgs(<<makeBytes(Zeros(9))>>, LOW, 1, 40, -1, FALSE)),
     Unmasked(encodeSegmentsArgs(<<makeBytes(Zeros(18))>>, MEDIUM, 1, 40, -1, FALSE)),
     Unmasked(encodeSegmentsArgs(<<makeNumeric(TextDigits)>>, HIGH, 7, 7, -1, FALSE))}

Masked(f) == lastOp # None /\ lastOp.fn = f

\* this.applyMask(m)
ApplyMask ==
    \E m \in 0..7 :
        /\ steps < MaxMaskSteps
        /\ before' = grid
        /\ grid' = applyMask(grid, m)
        /\ lastOp' = [fn |-> "applyMask", mask |-> m]
        /\ steps' = steps + 1
        /\ UNCHANGED <<selVars, facVars, segVars, fnVars, patterns>>

\* this.drawFormatBits(m), which the constructor calls after applyMask(m)
DrawFormatBits ==
    /\ steps < MaxMaskSteps
    /\ Masked("applyMask")
    /\ before' = grid
    /\ grid' = drawFormatBits(grid, lastOp.mask)
    /\ lastOp' = [fn |-> "drawFormatBits", mask |-> lastOp.mask]
    /\ steps' = steps + 1
    /\ UNCHANGED <<selVars, facVars, segVars, fnVars, patterns>>

MaskInit ==
    /\ SelIdle /\ FacIdle /\ SegIdle /\ FnIdle
    /\ grid \in MaskGrids /\ before = None /\ lastOp = None /\ steps = 0
    /\ patterns = drawFunctionPatterns(NewGrids(grid.version, LOW, 0))

MaskNext == ApplyMask \/ DrawFormatBits

SpecMask == MaskInit /\ [][MaskNext]_vars

\* ------------------------------------------------------------------------
\* Drawing the codewords on the function patterns of each version (SpecDraw)
\* ------------------------------------------------------------------------
\* floor(getNumRawDataModules(ver) / 8) codewords of value b
Codewords(ver, b) == Arr([i \in 1..(getNumRawDataModules(ver) \div 8) |-> b])

\* this.drawFunctionPatterns() on the blank grids of a symbol of version ver
DrawFunctionPatterns ==
    \E ver \in MIN_VERSION..MAX_VERSION :
        /\ grid = None
        /\ grid' = drawFunctionPatterns(NewGrids(ver, LOW, 0))
        /\ lastOp' = [fn |-> "drawFunctionPatterns", ver |-> ver]
        /\ steps' = steps + 1
        /\ UNCHANGED <<selVars, facVars, segVars, fnVars, before, patterns>>

\* this.drawCodewords(data), with every codeword 0xFF or every codeword 0xAA
DrawCodewords ==
    \E b \in {255, 170} :
        /\ Masked("drawFunctionPatterns")
        /\ before' = grid
        /\ grid' = drawCodewords(grid, Codewords(grid.version, b))
        /\ lastOp' = [fn |-> "drawCodewords", data |-> Codewords(grid.version, b)]
        /\ steps' = steps + 1
        /\ UNCHANGED <<selVars, facVars, segVars, fnVars, patterns>>

DrawInit == SelIdle /\ FacIdle /\ SegIdle /\ FnIdle /\ GridIdle

DrawNext == DrawFunctionPatterns \/ DrawCodewords

SpecDraw == DrawInit /\ [][DrawNext]_vars

Applied(f) == op # None /\ op.fn = f

\* "HELLO WORLD" at QUARTILE with mask 3, and 18 bytes at LOW with the
\* automatic mask (a version-2 symbol)
FnSymbols ==
    {encodeSegments(<<makeAlphanumeric(TextHelloWorld)>>, QUARTILE, 1, 40, 3, FALSE),
     encodeBinary(Zeros(18), LOW)}

\* coordinates inside, on and beyond the edges of a symbol of the given size
FnCoords(n) == {-2, -1, 0, 7, n - 1, n, n + 1}

\* qr.getModule(x, y)
ApplyGetModule ==
    \E qr \in {q \in FnSymbols : q.err = NoErr} :
        \E x \in FnCoords(qr.size), y \in FnCoords(qr.size) :
            /\ op = None
            /\ op' = [fn |-> "getModule", qr |-> qr, x |-> x, y |-> y]
            /\ out' = getModule(qr, x, y)
            /\ UNCHANGED <<selVars, facVars, segVars, gridVars>>

\* Texts given to makeSegments: empty, digits, charset, lower case, two-, three-
\* and four-byte characters, and strings holding an unpaired surrogate.
TextMixed == <<65, 49>>
TextEuro == <<8364>>
TextEmoji == <<55357, 56832>>
TextLoneHigh == <<55296>>
TextLoneLow == <<97, 56320>>
FnTexts ==
    {<<>>, TextDigits, <<48>>, TextHelloWorld, TextMixed, TextLowerA, TextHello,
     TextEuro, TextEmoji, TextLoneHigh, TextLoneLow, <<49, 97>>, <<37>>, <<35>>}

ApplyMakeSegments ==
    \E text \in FnTexts :
        /\ op = None
        /\ op' = [fn |-> "makeSegments", text |-> text]
        /\ out' = makeSegments(text)
        /\ UNCHANGED <<selVars, facVars, segVars, gridVars>>

\* ECI assignment values on both sides of every boundary of makeEci.
FnEciValues ==
    {-5, -1, 0, 1, 26, 127, 128, 255, 899, 16383, 16384, 65536, 999999,
     1000000, 1000001}

ApplyMakeEci ==
    \E assignVal \in FnEciValues :
        /\ op = None
        /\ op' = [fn |-> "makeEci", assignVal |-> assignVal]
        /\ out' = makeEci(assignVal)
        /\ UNCHANGED <<selVars, facVars, segVars, gridVars>>

\* getNumDataCodewords(ver, ecl) data codewords, neighbours differing
EccData(ver, ecl) == Arr([i \in 1..getNumDataCodewords(ver, ecl) |-> (7 * i + 3) % 256])

ApplyAddEccAndInterleave ==
    \E ver \in MIN_VERSION..MaxEccVersion, ecl \in QrEcc :
        /\ op = None
        /\ op' = [fn |-> "addEccAndInterleave", ver |-> ver, ecl |-> ecl,
                  data |-> EccData(ver, ecl)]
        /\ out' = addEccAndInterleave(EccData(ver, ecl), ver, ecl)
        /\ UNCHANGED <<selVars, facVars, segVars, gridVars>>

ApplyGetNumDataCodewords ==
    \E ver \in MIN_VERSION..MAX_VERSION, ecl \in QrEcc :
        /\ op = None
        /\ op' = [fn |-> "getNumDataCodewords", ver |-> ver, ecl |-> ecl]
        /\ out' = [raw |-> getNumRawDataModulesCall(ver),
                   data |-> getNumDataCodewords(ver, ecl)]
        /\ UNCHANGED <<selVars, facVars, segVars, gridVars>>

\* Segment lists for getTotalBits: empty, one of each mode made by a factory,
\* several segments, an ECI designator, and byte segments of 255 and 256 bytes,
\* the latter one more than an 8-bit count holds.
FnSegLists ==
    {<<>>,
     <<makeNumeric(TextDigits)>>,
     <<makeAlphanumeric(TextHelloWorld)>>,
     <<makeBytes(Zeros(9))>>,
     <<makeEci(26)>>,
     <<makeEci(899), makeBytes(Zeros(9))>>,
     <<makeNumeric(TextDigits), makeAlphanumeric(TextHelloWorld), makeBytes(Zeros(9))>>,
     <<makeBytes(Zeros(255))>>,
     <<makeBytes(Zeros(256))>>,
     <<makeNumeric(TextDigits), makeBytes(Zeros(256))>>,
     <<makeBytes(Zeros(256)), makeEci(26)>>}

FnVersions == {1, 9, 10, 26, 27, 40}

ApplyGetTotalBits ==
    \E segs \in FnSegLists, ver \in FnVersions :
        /\ op = None
        /\ op' = [fn |-> "getTotalBits", segs |-> segs, version |-> ver]
        /\ out' = getTotalBits(segs, ver)
        /\ UNCHANGED <<selVars, facVars, segVars, gridVars>>

\* Values of appendBits as <<hi, lo>>, val = hi * 2^16 + lo: 0, 1, 5, 255, 256,
\* 65535, 2^16, 2^31 - 1, 2^31, 2^32 - 1, 2^32, 2^32 + 5, 2^33 + 2^16.
FnWideValues ==
    {<<0, 0>>, <<0, 1>>, <<0, 5>>, <<0, 255>>, <<0, 256>>, <<0, 65535>>, <<1, 0>>,
     <<32767, 65535>>, <<32768, 0>>, <<65535, 65535>>, <<65536, 0>>, <<65536, 5>>,
     <<131073, 0>>}

ApplyAppendBits ==
    \E v \in FnWideValues, len \in {-1, 0, 1, 3, 8, 16, 17, 31, 32, 33},
       bb \in {<<>>, <<1, 0>>} :
        /\ op = None
        /\ op' = [fn |-> "appendBits", hi |-> v[1], lo |-> v[2], len |-> len, bb |-> bb]
        /\ out' = appendBitsWide(v[1], v[2], len, bb)
        /\ UNCHANGED <<selVars, facVars, segVars, gridVars>>

\* Dark counts of a grid of total modules: every count for the smallest grid,
\* and for the others the counts next to each multiple of 5% of the total.
FnDarkCounts(total) ==
    (IF total = 441 THEN 0..total ELSE {})
    \cup ({(j * total) \div 20 + e : j \in 0..20, e \in {-1, 0, 1, 2}} \cap 0..total)

\* the balance term of getPenaltyScore and its assertion, on a grid of the
\* version's size with dark dark modules
ApplyBalance ==
    \E ver \in MIN_VERSION..MAX_VERSION :
        \E dark \in FnDarkCounts((ver * 4 + 17) * (ver * 4 + 17)) :
            /\ op = None
            /\ op' = [fn |-> "balance", ver |-> ver, dark |-> dark,
                      total |-> (ver * 4 + 17) * (ver * 4 + 17)]
            /\ out' = [k |-> BalanceK(dark, (ver * 4 + 17) * (ver * 4 + 17)),
                       checked |-> PenaltyBalanced(
                           BalanceK(dark, (ver * 4 + 17) * (ver * 4 + 17)), 0)]
            /\ UNCHANGED <<selVars, facVars, segVars, gridVars>>

\* degrees of the divisor: the smallest, those of the ECC table, and a larger one
FnRsDegrees == {1, 2, 3, 5, 7, 10, 13, 16, 17, 22, 26, 30, 64}

\* data polynomials: empty, one byte, leading zeros, the extreme byte values
FnRsData ==
    { <<>>, <<0>>, <<1>>, <<255>>, <<0, 0, 7>>, <<255, 255, 255, 255>>,
      <<72, 69, 76, 76, 79>>, <<128, 64, 32, 16, 8, 4, 2, 1, 0, 255>>,
      <<64, 86, 134, 86, 198, 198, 242, 194, 7, 118, 247, 38, 198, 66, 16, 236>>,
      <<17, 236, 17, 236, 17, 236, 17, 236, 17, 236, 17, 236, 17, 236, 17, 236,
        17, 236, 17, 236>> }

\* ecc = reedSolomonComputeRemainder(data, reedSolomonComputeDivisor(degree)),
\* then the remainder of data followed by ecc under the same divisor
ReedSolomon(data, divisor, ecc) ==
    [divisor |-> divisor, ecc |-> ecc,
     again |-> reedSolomonComputeRemainder(data \o ecc, divisor)]

ApplyReedSolomon ==
    \E degree \in FnRsDegrees : \E data \in FnRsData :
        /\ op = None
        /\ op' = [fn |-> "reedSolomon", degree |-> degree, data |-> data]
        /\ out' = ReedSolomon(data, reedSolomonComputeDivisor(degree),
                     reedSolomonComputeRemainder(data, reedSolomonComputeDivisor(degree)))
        /\ UNCHANGED <<selVars, facVars, segVars, gridVars>>

FnInit == SelIdle /\ FacIdle /\ SegIdle /\ FnIdle /\ GridIdle

FnNext ==
    \/ ApplyGetModule
    \/ ApplyMakeSegments
    \/ ApplyMakeEci
    \/ ApplyAddEccAndInterleave
    \/ ApplyGetNumDataCodewords
    \/ ApplyGetTotalBits
    \/ ApplyAppendBits
    \/ ApplyBalance
    \/ ApplyReedSolomon

SpecFn == FnInit /\ [][FnNext]_vars

\* ========================================================================
\* Properties of the factory functions (SpecSel)
\* ========================================================================
Called == pc # "idle"

\* the range check of encodeSegments, on the arguments of the call made
ValidArgs ==
    /\ 1 <= call.minVersion /\ call.minVersion <= call.maxVersion /\ call.maxVersion <= 40
    /\ -1 <= call.mask /\ call.mask <= 7

\* the data of the call fits version v at level ecl
Fits(v, ecl) == getTotalBits(call.segs, v) <= 8 * getNumDataCodewords(v, ecl)

\* v is the smallest version of the call's range that the data fits at the
\* requested level
IsMinimalFit(v) ==
    /\ v \in call.minVersion..call.maxVersion
    /\ Fits(v, call.ecl)
    /\ \A w \in call.minVersion..(v - 1) : ~Fits(w, call.ecl)

NoneFits == \A v \in call.minVersion..call.maxVersion : ~Fits(v, call.ecl)

DataTooLong == pc = "thrown" /\ ret.err = "RangeError: Data too long"

\* C1: a call of encodeText / encodeBinary / encodeSegments with valid arguments
\* selects, and the symbol it returns has, the smallest version of
\* [minVersion, maxVersion] whose capacity at the requested level holds the
\* data; it throws RangeError "Data too long" exactly when no version of the
\* range holds the data.
C1_MinimalVersion ==
    (Called /\ ValidArgs) =>
        /\ NoneFits <=> DataTooLong
        /\ ~NoneFits => sel.err = NoErr /\ IsMinimalFit(sel.version)
        /\ pc = "returned" => IsMinimalFit(ret.version)

\* a symbol of version 2 is returned for a range that starts at version 1
C1_Witness ==
    /\ pc = "returned" /\ ValidArgs
    /\ call.minVersion = 1 /\ ret.version = 2 /\ ~Fits(1, call.ecl)

\* C2: a successful call with boostEcl = true yields a level whose ordinal is
\* at least that of the requested level, at which the data still fits, and the
\* minimal version found at the requested level; with boostEcl = false the
\* level is the requested one.
C2_BoostKeepsVersion ==
    (Called /\ sel.err = NoErr) =>
        /\ IsMinimalFit(sel.version)
        /\ call.boostEcl =>
              /\ sel.ecl.ordinal >= call.ecl.ordinal
              /\ Fits(sel.version, sel.ecl)
        /\ ~call.boostEcl => sel.ecl = call.ecl
        /\ pc = "returned" =>
              /\ ret.version = sel.version
              /\ ret.errorCorrectionLevel = sel.ecl

\* a returned symbol whose level was raised above the requested one
C2_Witness ==
    /\ pc = "returned" /\ call.boostEcl
    /\ ret.errorCorrectionLevel.ordinal > call.ecl.ordinal
    /\ ret.version = 2

\* C3: every symbol returned by encodeText, encodeBinary or encodeSegments, the
\* automatic mask included, has a version in 1..40, size = 4 * version + 17
\* (so 21 <= size <= 177) and a mask in 0..7.
C3_SymbolShape ==
    pc = "returned" =>
        /\ ret.version \in 1..40
        /\ ret.size = 4 * ret.version + 17
        /\ 21 <= ret.size /\ ret.size <= 177
        /\ ret.mask \in 0..7
        /\ Len(ret.modules) = ret.size
        /\ \A y \in 1..ret.size : Len(ret.modules[y]) = ret.size

\* a version-2 symbol returned by a call that asked for the automatic mask
C3_Witness == pc = "returned" /\ call.mask = -1 /\ ret.version = 2

HelloWorldQuartile ==
    /\ pc = "returned" /\ call.fn = "encodeText"
    /\ call.text = TextHelloWorld /\ call.ecl = QUARTILE
    /\ call.mask = -1 /\ call.boostEcl

\* C4, as amended: "HELLO WORLD" at the requested level QUARTILE, with the
\* automatic mask and boostEcl = true, yields version 1, size 21 and the level
\* QUARTILE: the 74 bits used exceed the 72 bits of version 1 at HIGH, so the
\* level is not raised.
C4_HelloWorldStaysQuartile ==
    HelloWorldQuartile =>
        /\ ret.version = 1 /\ ret.size = 21
        /\ ret.errorCorrectionLevel = QUARTILE
        /\ getTotalBits(call.segs, 1) = 74
        /\ 8 * getNumDataCodewords(1, HIGH) = 72
        /\ 8 * getNumDataCodewords(1, QUARTILE) = 104

C4_Witness == HelloWorldQuartile /\ ret.mask \in 0..7

\* C4, as stated: the same call yields version 1, size 21 and the level HIGH.
C4_HelloWorldBecomesHigh ==
    HelloWorldQuartile =>
        /\ ret.version = 1 /\ ret.size = 21
        /\ ret.errorCorrectionLevel = HIGH

\* one byte more than the maximum, as a byte segment
OverlongBytes == <<makeBytes(Zeros(MaxByteCount + 1))>>

BinaryCall(n) == Called /\ call.fn = "encodeBinary" /\ Len(call.data) = n

\* C5: encodeBinary at LOW (range 1..40) selects version 40 for 2953 bytes and
\* throws RangeError "Data too long" for 2954 bytes; no version and level
\* holds 2954 bytes.
C5_ByteCapacity ==
    /\ (BinaryCall(MaxByteCount) /\ call.ecl = LOW) =>
            /\ pc # "thrown" /\ sel.err = NoErr /\ sel.version = 40
            /\ \A v \in 1..39 : ~Fits(v, LOW)
    /\ BinaryCall(MaxByteCount + 1) => DataTooLong
    /\ \A v \in 1..40, ecl \in QrEcc :
            getTotalBits(OverlongBytes, v) > 8 * getNumDataCodewords(v, ecl)

\* 2953 bytes at LOW: version 40 is selected
C5_Witness ==
    /\ BinaryCall(MaxByteCount) /\ call.ecl = LOW
    /\ pc = "construct" /\ sel.version = 40 /\ Len(sel.dataCodewords) = 2956

\* C10: a call of encodeSegments whose arguments are out of range (not
\* 1 <= minVersion <= maxVersion <= 40, or mask < -1, or mask > 7) throws
\* RangeError "Invalid value" and builds no symbol: the check precedes the
\* version selection, so "Data too long" is never reported instead.
C10_ArgumentCheckFirst ==
    (Called /\ ~ValidArgs) =>
        /\ pc = "thrown"
        /\ ret.err = "RangeError: Invalid value"
        /\ sel = ret

\* an out-of-range call whose data no version of the range would hold
C10_Witness ==
    /\ pc = "thrown" /\ call.minVersion > call.maxVersion
    /\ ~Fits(call.minVersion, call.ecl)
    /\ ret.err = "RangeError: Invalid value"

\* ========================================================================
\* Properties of MyQrCode (Spec)
\* ========================================================================
\* the fields and the grid of the instance are those of the symbol core
SameAsCore(core) ==
    /\ core.err = NoErr
    /\ version = core.version
    /\ size = core.size
    /\ qrEcc = core.errorCorrectionLevel
    /\ mask = core.mask
    /\ marix = core.modules

\* C6: with no updateParam since construction, after each successful encode
\* call the version, size, level, mask and matrix of the instance are those of
\* QrCode.encodeSegments on that call's data with the parameters the instance
\* was made with.
C6_PassThrough ==
    (calls > 0 /\ thrown = NoErr /\ ~cfg.updated /\ callerRef = "null") =>
        SameAsCore(encodeSegments(lastCall.segs, cfg.qrEcc, cfg.minVersion,
                                  cfg.maxVersion, cfg.mask, cfg.boostEcl))

\* C7: after successful encode calls only, getMatrix() has exactly getSize()
\* rows of getSize() entries, and getMatrix()[y][x] = getPoint(x, y) = the
\* module (x, y) of the symbol of the most recent call.
C7_MatrixIsLastSymbol ==
    (calls > 0 /\ ~failed /\ callerRef = "null") =>
        /\ Len(getMatrix) = getSize
        /\ \A y \in 1..Len(getMatrix) : Len(getMatrix[y]) = getSize
        /\ \A x \in 0..(getSize - 1), y \in 0..(getSize - 1) :
              /\ getMatrix[y + 1][x + 1] = getPoint(x, y)
              /\ getPoint(x, y) = getModule(lastQr, x, y)

\* C8: what getMatrix() returns is what the instance itself last wrote,
\* whatever the caller did to the arrays it got from getMatrix().
C8_MatrixNotAliased == getMatrix = stored

\* ========================================================================
\* Properties of QrSegment (SpecSeg)
\* ========================================================================
\* C9: whatever the caller writes to the array it gave to the constructor or
\* to an array it got from getData(), getData() returns the bits the segment
\* was made of and getTotalBits counts them.
C9_SegmentImmutable ==
    seg # None =>
        /\ getData(SegValue) = bits0
        /\ \A v \in {1, 10, 27} :
              getTotalBits(<<SegValue>>, v)
                = 4 + numCharCountBits(seg.mode, v) + Len(bits0)

\* the caller has changed the array it gave and an array it got
C9_Witness ==
    /\ seg # None
    /\ heap[given] # bits0
    /\ \E a \in got : heap[a] # bits0 /\ heap[a] # heap[given]

\* ========================================================================
\* Properties of single functions and methods (SpecFn)
\* ========================================================================
\* C11: on a constructed symbol getModule(x, y) is false for every coordinate
\* with x < 0, x >= size, y < 0 or y >= size, and the stored module for every
\* coordinate in range.
C11_GetModuleOutOfRange ==
    Applied("getModule") =>
        IF 0 <= op.x /\ op.x < op.qr.size /\ 0 <= op.y /\ op.y < op.qr.size
        THEN out = op.qr.modules[op.y + 1][op.x + 1]
        ELSE out = FALSE

\* one column right of the dark corner module (0, 0)
C11_Witness ==
    /\ Applied("getModule") /\ op.qr.err = NoErr
    /\ op.x = op.qr.size /\ op.y = 0 /\ op.qr.modules[1][1]
    /\ out = FALSE


\* C12: makeSegments(text) returns the empty list for the empty string, exactly
\* one NUMERIC segment for a non-empty string of digits, exactly one ALPHANUMERIC
\* segment for a string of the 45-character charset that is not all digits, and
\* exactly one BYTE segment of eight bits per UTF-8 byte for every other string.
C12_MakeSegmentsModes ==
    Applied("makeSegments") =>
        /\ out.err = NoErr
        /\ IF op.text = <<>> THEN out.segs = <<>>
           ELSE /\ Len(out.segs) = 1
                /\ IF \A i \in 1..Len(op.text) : op.text[i] \in 48..57
                   THEN /\ out.segs[1].mode = NUMERIC
                        /\ out.segs[1].numChars = Len(op.text)
                   ELSE IF \A i \in 1..Len(op.text) :
                               \E k \in 1..45 : ALPHANUMERIC_CHARSET[k] = op.text[i]
                   THEN /\ out.segs[1].mode = ALPHANUMERIC
                        /\ out.segs[1].numChars = Len(op.text)
                   ELSE /\ out.segs[1].mode = BYTE
                        /\ Len(out.segs[1].bitData) = 8 * out.segs[1].numChars
                        /\ out.segs[1].numChars >= Len(op.text)


\* bit k (1 = first) of the n-bit big-endian form of v
BitOfValue(v, n, k) == (v \div (2 ^ (n - k))) % 2

\* C13: makeEci(v) returns an ECI segment with numChars 0 whose bits are v in 8
\* bits for 0 <= v <= 127, 1 0 then v in 14 bits for 128 <= v <= 16383, 1 1 0
\* then v in 21 bits for 16384 <= v <= 999999; it fails with a RangeError for
\* v < 0 and for v >= 1000000.
C13_MakeEciEncoding ==
    Applied("makeEci") =>
        IF op.assignVal < 0 \/ op.assignVal >= 1000000
        THEN out = [err |-> "RangeError: ECI assignment value out of range"]
        ELSE /\ out.err = NoErr /\ out.mode = ECI /\ out.numChars = 0
             /\ IF op.assignVal <= 127
                THEN /\ Len(out.bitData) = 8
                     /\ \A k \in 1..8 :
                            out.bitData[k] = BitOfValue(op.assignVal, 8, k)
                ELSE IF op.assignVal <= 16383
                THEN /\ Len(out.bitData) = 16
                     /\ out.bitData[1] = 1 /\ out.bitData[2] = 0
                     /\ \A k \in 1..14 :
                            out.bitData[2 + k] = BitOfValue(op.assignVal, 14, k)
                ELSE /\ Len(out.bitData) = 24
                     /\ out.bitData[1] = 1 /\ out.bitData[2] = 1
                     /\ out.bitData[3] = 0
                     /\ \A k \in 1..21 :
                            out.bitData[3 + k] = BitOfValue(op.assignVal, 21, k)

C13_Witness ==
    /\ Applied("makeEci") /\ op.assignVal = 128
    /\ out.err = NoErr
    /\ out.bitData = <<1, 0, 0, 0, 0, 0, 0, 0, 1, 0, 0, 0, 0, 0, 0, 0>>


\* The eight mask patterns as the specification lists them (x, y from 0).
MaskPattern(m, x, y) ==
    CASE m = 0 -> (x + y) % 2 = 0
      [] m = 1 -> y % 2 = 0
      [] m = 2 -> x % 3 = 0
      [] m = 3 -> (x + y) % 3 = 0
      [] m = 4 -> ((x \div 3) + (y \div 2)) % 2 = 0
      [] m = 5 -> ((x * y) % 2) + ((x * y) % 3) = 0
      [] m = 6 -> (((x * y) % 2) + ((x * y) % 3)) % 2 = 0
      [] m = 7 -> (((x + y) % 2) + ((x * y) % 3)) % 2 = 0

\* The module coordinates <<x, y>> of format bits 0..14, first and second copy.
FormatCopyOne ==
    << <<8, 0>>, <<8, 1>>, <<8, 2>>, <<8, 3>>, <<8, 4>>, <<8, 5>>, <<8, 7>>, <<8, 8>>,
       <<7, 8>>, <<5, 8>>, <<4, 8>>, <<3, 8>>, <<2, 8>>, <<1, 8>>, <<0, 8>> >>

FormatCopyTwo(n) ==
    << <<n - 1, 8>>, <<n - 2, 8>>, <<n - 3, 8>>, <<n - 4, 8>>, <<n - 5, 8>>,
       <<n - 6, 8>>, <<n - 7, 8>>, <<n - 8, 8>>,
       <<8, n - 7>>, <<8, n - 6>>, <<8, n - 5>>, <<8, n - 4>>, <<8, n - 3>>,
       <<8, n - 2>>, <<8, n - 1>> >>

\* The modules at the given coordinates spell the bits of word, bit 0 first.
Spells(q, places, word) ==
    \A i \in 1..Len(places) :
        q.modules[places[i][2] + 1][places[i][1] + 1] = (BitAt(word, i - 1) = 1)

MaskedOnce(q, u) ==
    /\ q.mask \in 0..7
    /\ \A y \in 0..(q.size - 1), x \in 0..(q.size - 1) :
          ~u.isFunction[y + 1][x + 1] =>
              q.modules[y + 1][x + 1] =
                  (u.modules[y + 1][x + 1] # MaskPattern(q.mask, x, y))
    /\ Spells(q, FormatCopyOne, FormatBits(q.errorCorrectionLevel, q.mask))
    /\ Spells(q, FormatCopyTwo(q.size), FormatBits(q.errorCorrectionLevel, q.mask))

\* C14: in a constructed symbol exactly one mask has been applied: every
\* non-function module is the unmasked codeword bit XOR the pattern of the
\* symbol's mask, and both copies of the format information encode the symbol's
\* final error correction level and that mask.
C14_ExactlyOneMask ==
    pc = "returned" => MaskedOnce(ret, Unmasked(sel))

C14_Witness ==
    /\ pc = "returned" /\ call.mask = 3 /\ ret.mask = 3
    /\ ret.errorCorrectionLevel # call.ecl
    /\ \E x \in 0..8 : ret.modules[9][x + 1]

\* The penalty of the grid u under trial mask m, with that mask's format bits.
TrialPenalty(u, m) == getPenaltyScore(drawFormatBits(applyMask(u, m), m)).result

TrialPenalties(u) == Arr([m \in 1..8 |-> TrialPenalty(u, m - 1)])

\* p[m + 1] is least, and no smaller index has the same penalty
IsLeastPenaltyMask(p, m) ==
    /\ m \in 0..7
    /\ \A k \in 0..7 : p[m + 1] <= p[k + 1]
    /\ \A k \in 0..(m - 1) : p[k + 1] > p[m + 1]

\* C15: when the mask argument is -1, all eight masks are evaluated on the same
\* unmasked grid, each with its own format bits, and the mask of the symbol is
\* the one of lowest penalty, the smallest index among equals.
C15_AutoMaskLeastPenalty ==
    pc = "returned" /\ sel.mask = -1 =>
        IsLeastPenaltyMask(TrialPenalties(Unmasked(sel)), ret.mask)

C15_Witness ==
    /\ pc = "returned" /\ sel.mask = -1
    /\ ret.mask \in 1..7


\* C16: for every mask m in 0..7 and every grid, with the function markers
\* fixed, applyMask(m) applied a second time gives back exactly the grid that
\* the first application started from.
C16_MaskInvolution ==
    Masked("applyMask") => applyMask(grid, lastOp.mask) = before

C16_Witness ==
    /\ Masked("applyMask") /\ lastOp.mask = 5 /\ steps = 2
    /\ grid.modules # before.modules
    /\ applyMask(grid, 5).modules = before.modules

\* (x, y) holds a bit of one of the two format copies of a symbol of size n
IsFormatPlace(n, x, y) ==
    \/ x = 8 /\ (y <= 5 \/ y = 7 \/ y = 8 \/ y >= n - 7)
    \/ y = 8 /\ (x <= 5 \/ x = 7 \/ x = 8 \/ x >= n - 8)

\* outside the format copies, the function modules of q are those of f
SamePatterns(q, f) ==
    \A y \in 0..(q.size - 1), x \in 0..(q.size - 1) :
        f.isFunction[y + 1][x + 1] /\ ~IsFormatPlace(q.size, x, y)
            => q.modules[y + 1][x + 1] = f.modules[y + 1][x + 1]

\* C17: applyMask(m) leaves every function module unchanged and flips a
\* non-function module at (x, y) iff mask pattern m holds there; the finder,
\* timing, alignment, version and dark modules of a grid, masked and with format
\* bits drawn or not, are those of the function patterns of its version alone.
C17_MaskSparesFunctionModules ==
    /\ Masked("applyMask") =>
          \A y \in 0..(grid.size - 1), x \in 0..(grid.size - 1) :
              grid.modules[y + 1][x + 1] =
                  IF before.isFunction[y + 1][x + 1]
                  THEN before.modules[y + 1][x + 1]
                  ELSE (before.modules[y + 1][x + 1] # MaskPattern(lastOp.mask, x, y))
    /\ SamePatterns(grid, patterns)

C17_Witness ==
    /\ Masked("drawFormatBits") /\ steps = 2 /\ grid.version = 7
    /\ grid.modules[grid.size - 7][9]
    /\ grid.modules # patterns.modules


\* The block layout of a version and level, from the tables alone: n blocks,
\* e ECC bytes per block, d data codewords, of which the first numShort blocks
\* take short each and the others short + 1.
Layout(ver, ecl) ==
    [n |-> NUM_ERROR_CORRECTION_BLOCKS[ecl.ordinal + 1][ver + 1],
     e |-> ECC_CODEWORDS_PER_BLOCK[ecl.ordinal + 1][ver + 1],
     raw |-> getNumRawDataModules(ver) \div 8,
     d |-> getNumDataCodewords(ver, ecl),
     short |-> getNumDataCodewords(ver, ecl)
                  \div NUM_ERROR_CORRECTION_BLOCKS[ecl.ordinal + 1][ver + 1],
     numShort |-> NUM_ERROR_CORRECTION_BLOCKS[ecl.ordinal + 1][ver + 1]
                  - (getNumDataCodewords(ver, ecl)
                        % NUM_ERROR_CORRECTION_BLOCKS[ecl.ordinal + 1][ver + 1])]

\* Data codeword p (from 0) lies in block BlockOf at offset OffsetOf when the
\* short blocks come first and the long blocks are one byte longer.
BlockOf(l, p) ==
    IF p < l.numShort * l.short THEN p \div l.short
    ELSE l.numShort + ((p - l.numShort * l.short) \div (l.short + 1))

OffsetOf(l, p) ==
    IF p < l.numShort * l.short THEN p % l.short
    ELSE (p - l.numShort * l.short) % (l.short + 1)

\* Where byte i of block j lies in the interleaved output (from 0).
InterleavedAt(l, j, i) ==
    IF i < l.short THEN i * l.n + j ELSE l.short * l.n + (j - l.numShort)

\* every version and level: the blocks take all the data codewords and, with
\* their ECC bytes, fill the raw codewords exactly
BlocksFill(l) ==
    /\ l.n >= 1 /\ l.numShort >= 1 /\ l.short >= 1
    /\ l.numShort * l.short + (l.n - l.numShort) * (l.short + 1) = l.d
    /\ l.d + l.n * l.e = l.raw

\* C18: for every version and level, given getNumDataCodewords data codewords,
\* addEccAndInterleave splits them into NUM_BLOCKS blocks that consume every data
\* codeword exactly once, short blocks first and long blocks one byte longer;
\* the output has floor(getNumRawDataModules / 8) bytes and the length assertion
\* does not fail.  The codewords are interleaved for versions 1..MaxEccVersion;
\* the block arithmetic is checked for all of 1..40.
C18_BlocksConsumeData ==
    /\ \A ver \in MIN_VERSION..MAX_VERSION, ecl \in QrEcc : BlocksFill(Layout(ver, ecl))
    /\ Applied("addEccAndInterleave") =>
          /\ out.err = NoErr
          /\ Len(out.result) = getNumRawDataModules(op.ver) \div 8
          /\ \A p \in 0..(Len(op.data) - 1) :
                /\ InterleavedAt(Layout(op.ver, op.ecl), BlockOf(Layout(op.ver, op.ecl), p),
                                 OffsetOf(Layout(op.ver, op.ecl), p)) < Len(op.data)
                /\ out.result[InterleavedAt(Layout(op.ver, op.ecl),
                                            BlockOf(Layout(op.ver, op.ecl), p),
                                            OffsetOf(Layout(op.ver, op.ecl), p)) + 1]
                       = op.data[p + 1]

C18_Witness ==
    /\ Applied("addEccAndInterleave") /\ op.ver = 5 /\ op.ecl = QUARTILE
    /\ out.err = NoErr /\ Len(out.result) = 134
    /\ Layout(5, QUARTILE).numShort = 2 /\ Layout(5, QUARTILE).n = 4
    /\ out.result[62] = op.data[62] /\ out.result[61] = op.data[46]


\* C19: for every version v in 1..40 getNumRawDataModules(v) lies in
\* [208, 29648], so that its assertion does not fail, and for every level
\* getNumDataCodewords(v, ecc) is non-negative and no larger than at any level
\* of smaller ordinal (LOW >= MEDIUM >= QUARTILE >= HIGH).
C19_CapacityRange ==
    Applied("getNumDataCodewords") =>
        /\ out.raw.err = NoErr
        /\ 208 <= out.raw.result /\ out.raw.result <= 29648
        /\ out.data >= 0
        /\ \A ecl \in QrEcc :
              ecl.ordinal < op.ecl.ordinal
                  => getNumDataCodewords(op.ver, ecl) >= out.data

C19_Witness ==
    /\ Applied("getNumDataCodewords") /\ op.ver = 40 /\ op.ecl = HIGH
    /\ out.raw.result = 29648 /\ out.data = 1276
    /\ getNumDataCodewords(40, QUARTILE) = 1666


\* the width of the count field of mode m at version v: cc[floor((v + 7) / 17)]
CountWidth(m, v) == m.numBitsCharCount[((v + 7) \div 17) + 1]

\* the sum over segments k.. of 4 + count width + bit length
RECURSIVE SumOfSegmentBits(_, _, _)
SumOfSegmentBits(segs, v, k) ==
    IF k > Len(segs) THEN 0
    ELSE 4 + CountWidth(segs[k].mode, v) + Len(segs[k].bitData)
         + SumOfSegmentBits(segs, v, k + 1)

\* C20: getTotalBits(segs, version) is the sum over the segments of
\* 4 + mode.numCharCountBits(version) + the segment's bit length, and +Infinity
\* if some segment has numChars >= 2^numCharCountBits(version); an ECI segment
\* (count width 0, numChars 0) never causes the overflow.
C20_TotalBits ==
    Applied("getTotalBits") =>
        /\ IF \E k \in 1..Len(op.segs) :
                  op.segs[k].numChars >= 2 ^ CountWidth(op.segs[k].mode, op.version)
           THEN out = Infinity
           ELSE out = SumOfSegmentBits(op.segs, op.version, 1)
        /\ \A k \in 1..Len(op.segs) :
              op.segs[k].mode = ECI =>
                  /\ numCharCountBits(ECI, op.version) = 0
                  /\ op.segs[k].numChars < 2 ^ numCharCountBits(ECI, op.version)
                  /\ getTotalBits(<<op.segs[k]>>, op.version)
                         = 4 + Len(op.segs[k].bitData)

C20_Witness ==
    /\ Applied("getTotalBits") /\ op.version = 9 /\ Len(op.segs) = 2
    /\ op.segs[2].numChars = 256 /\ op.segs[2].mode = BYTE
    /\ out = Infinity


\* hi * 2^16 + lo >= 2^len, for 0 <= len <= 31
AtLeastPower(hi, lo, len) ==
    IF len >= 16 THEN hi >= 2 ^ (len - 16) ELSE hi > 0 \/ lo >= 2 ^ len

\* bit i (from 0) of hi * 2^16 + lo
ValueBit(hi, lo, i) ==
    IF i >= 16 THEN (hi \div (2 ^ (i - 16))) % 2 ELSE (lo \div (2 ^ i)) % 2

\* C21: appendBits(value, len, buf), for every non-negative integer value and
\* every integer len, throws RangeError and leaves buf unchanged iff len < 0,
\* len > 31 or value >= 2^len; otherwise it appends exactly len bits to buf,
\* most significant first, whose binary value is value.
C21_AppendBitsRange ==
    Applied("appendBits") =>
        IF op.len < 0 \/ op.len > 31 \/ AtLeastPower(op.hi, op.lo, op.len)
        THEN out = [err |-> "RangeError: Value out of range", bb |-> op.bb]
        ELSE /\ out.err = NoErr
             /\ Len(out.bb) = Len(op.bb) + op.len
             /\ SubSeq(out.bb, 1, Len(op.bb)) = op.bb
             /\ \A k \in 1..op.len :
                    out.bb[Len(op.bb) + k] = ValueBit(op.hi, op.lo, op.len - k)


\* The bits of segments k.. at version v: mode indicator in 4 bits, the count
\* in the mode's count width, then the data bits.
RECURSIVE SegmentStream(_, _, _)
SegmentStream(segs, v, k) ==
    IF k > Len(segs) THEN <<>>
    ELSE [i \in 1..4 |-> BitOfValue(segs[k].mode.modeBits, 4, i)]
         \o [i \in 1..CountWidth(segs[k].mode, v) |->
                BitOfValue(segs[k].numChars, CountWidth(segs[k].mode, v), i)]
         \o segs[k].bitData
         \o SegmentStream(segs, v, k + 1)

\* bit i (from 1) of the stream e followed by zero bits
StreamBit(e, i) == IF i <= Len(e) THEN e[i] ELSE 0

\* byte c (from 1) of the stream e followed by zero bits, big endian
StreamByte(e, c) ==
    128 * StreamBit(e, 8 * c - 7) + 64 * StreamBit(e, 8 * c - 6)
    + 32 * StreamBit(e, 8 * c - 5) + 16 * StreamBit(e, 8 * c - 4)
    + 8 * StreamBit(e, 8 * c - 3) + 4 * StreamBit(e, 8 * c - 2)
    + 2 * StreamBit(e, 8 * c - 1) + StreamBit(e, 8 * c)

\* the number of bytes taken by the stream of used bits, its terminator of
\* min(4, capacity - used) bits and the zero bits up to the byte boundary
HeadBytes(used, capacity) ==
    (used + (IF capacity - used < 4 THEN capacity - used ELSE 4) + 7) \div 8

\* dc is the stream e, the terminator, the zero fill and the pad bytes
IsAssembled(dc, e, capacity) ==
    /\ Len(e) <= capacity
    /\ 8 * Len(dc) = capacity
    /\ \A c \in 1..Len(dc) :
          dc[c] = IF c <= HeadBytes(Len(e), capacity) THEN StreamByte(e, c)
                  ELSE IF (c - HeadBytes(Len(e), capacity)) % 2 = 1 THEN 236 ELSE 17

\* C22: the data codewords encodeSegments hands to the constructor are
\* getNumDataCodewords(version, final level) bytes: the segments' bits (mode
\* indicator, count, data) in order, min(4, capacity - used) zero terminator
\* bits, zero bits up to the byte boundary, then pad bytes 0xEC, 0x11, 0xEC, ...
\* up to the capacity at the final (possibly boosted) level; no assertion on
\* these lengths fails.
C22_DataCodewordsLayout ==
    /\ sel # None => sel.err # AssertionError
    /\ pc \in {"construct", "returned"} =>
          IsAssembled(sel.dataCodewords, SegmentStream(call.segs, sel.version, 1),
                      8 * getNumDataCodewords(sel.version, sel.ecl))

C22_Witness ==
    /\ pc = "construct" /\ Len(call.segs) = 2
    /\ call.ecl = LOW /\ sel.ecl = MEDIUM /\ sel.version = 1
    /\ Len(SegmentStream(call.segs, 1, 1)) = 125
    /\ sel.dataCodewords[16] = 0


\* k is the smallest k >= 0 with (45 - 5k)% <= dark / total <= (55 + 5k)%
IsSmallestBalance(k, dark, total) ==
    /\ (45 - 5 * k) * total <= 100 * dark /\ 100 * dark <= (55 + 5 * k) * total
    /\ k > 0 => ~(/\ (50 - 5 * k) * total <= 100 * dark
                  /\ 100 * dark <= (50 + 5 * k) * total)

\* C23: for every grid of size 4 * version + 17 (an odd side, so that the dark
\* modules are never exactly half) and every number of dark modules from 0 to
\* total, the balance term k = ceil(|20 dark - 10 total| / total) - 1 lies in
\* [0, 9] and the assertion 0 <= k <= 9 does not fail.
C23_BalanceInRange ==
    Applied("balance") =>
        /\ 0 <= out.k /\ out.k <= 9
        /\ out.checked = [err |-> NoErr, result |-> out.k * 10]
        /\ 2 * op.dark # op.total
        /\ IsSmallestBalance(out.k, op.dark, op.total)

C23_Witness ==
    /\ Applied("balance") /\ op.ver = 40 /\ op.dark = op.total
    /\ out.k = 9 /\ out.checked.result = 90


\* C24: updateParam(p) is a plain assignment of every provided field: after the
\* call each parameter given in p holds the given value, and a parameter left
\* out of p (qrEcc is optional) keeps the value it had before the call.
C24_UpdateParamAssigns ==
    [][\A p \in FacUpdates :
          UpdateParamOf(p) =>
              /\ minVersion' = p.minVersion /\ maxVersion' = p.maxVersion
              /\ mask' = p.mask /\ boostEcl' = p.boostEcl
              /\ qrEcc' = IF "qrEcc" \in DOMAIN p THEN p.qrEcc ELSE qrEcc]_vars


\* C25: if encodeText or encodeBinary raises an error, every observable of the
\* instance is the same as before the call: getSize, getVersion, getMatrix,
\* getDataText, getDataBinay and the stored encoding parameters.
C25_FailedEncodeChangesNothing ==
    [][calls' = calls + 1 /\ thrown' # NoErr =>
          /\ getSize' = getSize /\ getVersion' = getVersion
          /\ getMatrix' = getMatrix
          /\ getDataText' = getDataText /\ getDataBinay' = getDataBinay
          /\ UNCHANGED <<qrEcc, minVersion, maxVersion, mask, boostEcl>>]_vars


\* the modules of q not marked as function modules in f, and the dark ones
Unmarked(f) ==
    Cardinality({c \in (1..f.size) \X (1..f.size) : ~f.isFunction[c[2]][c[1]]})

DarkUnmarked(q, f) ==
    Cardinality({c \in (1..f.size) \X (1..f.size) :
                    ~f.isFunction[c[2]][c[1]] /\ q.modules[c[2]][c[1]]})

\* the number of bits set in the byte b
BitsSet(b) ==
    (b % 2) + ((b \div 2) % 2) + ((b \div 4) % 2) + ((b \div 8) % 2)
    + ((b \div 16) % 2) + ((b \div 32) % 2) + ((b \div 64) % 2) + ((b \div 128) % 2)

\* codewords all of one value leave as many dark modules as they have bits set:
\* no bit is dropped and no module is written twice
AllPlaced(q, f, data) ==
    /\ q.err = NoErr
    /\ \A y \in 1..f.size, x \in 1..f.size :
          f.isFunction[y][x] => q.modules[y][x] = f.modules[y][x]
    /\ DarkUnmarked(q, f) = Len(data) * BitsSet(data[1])
    /\ Unmarked(f) - 8 * Len(data) \in 0..7

\* C26: for every version in 1..40 the modules left unmarked by
\* drawFunctionPatterns number getNumRawDataModules(version); drawCodewords
\* writes no function module, places all 8 * floor(raw / 8) codeword bits, each
\* on a module of its own, without failing its assertion, and leaves fewer than
\* 8 remainder modules, which stay light.
C26_CodewordsFillDataArea ==
    /\ Masked("drawFunctionPatterns") =>
          grid.err = NoErr /\ Unmarked(grid) = getNumRawDataModules(lastOp.ver)
    /\ Masked("drawCodewords") => AllPlaced(grid, before, lastOp.data)

C26_Witness ==
    /\ Masked("drawCodewords") /\ grid.version = 40 /\ lastOp.data[1] = 255
    /\ Len(lastOp.data) = 3706 /\ grid.err = NoErr
    /\ grid.modules[177][177] /\ ~before.modules[177][177]

\* the double of a in GF(2^8) modulo x^8 + x^4 + x^3 + x^2 + 1
FieldDouble(a) == IF a >= 128 THEN Xor((2 * a) % 256, 29) ELSE 2 * a

\* the product of a and b in that field, from the low bit of b upwards
RECURSIVE FieldTimes(_, _)
FieldTimes(a, b) ==
    IF b = 0 THEN 0
    ELSE Xor(IF b % 2 = 1 THEN a ELSE 0, FieldTimes(FieldDouble(a), b \div 2))

\* 2 to the power i in that field
RECURSIVE FieldRoot(_)
FieldRoot(i) == IF i = 0 THEN 1 ELSE FieldDouble(FieldRoot(i - 1))

\* the value at x of the polynomial with coefficients poly, highest power
\* first (Horner's rule), starting from acc
RECURSIVE ValueAt(_, _, _, _)
ValueAt(poly, x, k, acc) ==
    IF k > Len(poly) \/ acc \notin 0..255 THEN acc
    ELSE ValueAt(poly, x, k + 1, Xor(FieldTimes(acc, x), poly[k]))

\* C27: for every degree d and every sequence of 8-bit data bytes,
\* reedSolomonComputeRemainder(data, reedSolomonComputeDivisor(d)) returns
\* exactly d bytes, each below 256, and the remainder of data followed by those
\* bytes under the same divisor is d zero bytes; the block then vanishes at
\* each root 2^0 .. 2^(d-1) of the generator polynomial.
C27_ReedSolomonRemainder ==
    Applied("reedSolomon") =>
        /\ Len(out.divisor) = op.degree
        /\ Len(out.ecc) = op.degree
        /\ \A i \in 1..op.degree : out.ecc[i] \in 0..255
        /\ out.again = [i \in 1..op.degree |-> 0]
        /\ \A i \in 0..(op.degree - 1) :
              ValueAt(op.data \o out.ecc, FieldRoot(i), 1, 0) = 0

C27_Witness ==
    /\ Applied("reedSolomon") /\ op.degree = 10
    /\ op.data = <<64, 86, 134, 86, 198, 198, 242, 194, 7, 118, 247, 38, 198, 66, 16, 236>>
    /\ out.ecc # [i \in 1..10 |-> 0]
    /\ out.again = [i \in 1..10 |-> 0]

====
